---- MODULE Spec2Model ----
(***************************************************************************)
(* A model of scripts/perf_guardrail.py, the performance guardrail of      *)
(* PathSpace: the tolerance evaluation (compare_metrics, _max_tolerance),  *)
(* the baseline document on disk (_dump_json, _load_json) and the control  *)
(* flow of main().                                                         *)
(* The second half models the screenshot guardrails of paint_example:      *)
(* scripts/paint_example_monitor.py, scripts/paint_example_capture.py and  *)
(* scripts/check_paint_screenshot.py, which share the baseline manifest.   *)
(* The last sections model three further scripts, each on its own:         *)
(* scripts/capture_renderer_fps_traces.py (run_benchmark),                 *)
(* scripts/size_guardrail.py (ensure_baseline) and the event stream of     *)
(* scripts/paint_example_inspector_panel.py (handle_card_stream).          *)
(*                                                                         *)
(* Numbers.  The program computes with Python floats.  A metric value or   *)
(* an absolute tolerance is held as the decimal numeral the documents give *)
(* for it, an integer counting hundredths (10.0 is 1000, 1.5 is 150); a    *)
(* percent is the plain number (15.0 is 15).  Float turns the numeral into *)
(* the double Python computes with, and the tolerance evaluation is done   *)
(* in double-precision arithmetic, rounding as the interpreter rounds.     *)
(*                                                                         *)
(* Optional values.  A Python value that may be None is a sequence of      *)
(* length at most one: <<>> is None and <<v>> is the value v.              *)
(***************************************************************************)
EXTENDS Integers, Sequences, FiniteSets, TLC

VARIABLES
    baselineFile,   \* the file at args.baseline: [exists, text]
    pc,             \* position of the perf_guardrail invocation in main()
    args,           \* parsed command line: [write_baseline, scenarios]
    reports,        \* what each producer run so far did: name -> [returncode, metrics, launches]
    results,        \* main's `results`: name -> filtered metric map
    outfile,        \* _dump_json's open handle: the text not yet flushed
    failures,       \* main's `failures` list
    exitCode,       \* the process exit status (NoExit while running)
    outcome,        \* the message the invocation ended with
    priorFile,      \* the baseline file as it was when the invocation started
    readerView,     \* what a concurrent reader of the baseline path last read
    evIn,           \* arguments of a direct call of compare_metrics or _flatten,
                    \* or the SCENARIOS list a caller has put into the module
    evOut,          \* its return value: <<>> before the call, <<value>> after
    manifestFile,   \* docs/images/paint_example_baselines.json: [exists, doc]
    markerFile,     \* the expected-revision file: [exists, text]
    changelogFile,  \* the palette log: [exists, lines]
    baselinePng,    \* the baseline PNG files: path -> file
    artifacts,      \* build/artifacts/paint_example: tag -> [screenshot, metrics]
    paintBinary,    \* whether build/paint_example exists
    reportFile,     \* monitor_report.json as the monitor wrote it, or <<>>
    mon,            \* the paint_example_monitor invocation
    cap,            \* the paint_example_capture invocation
    shot,           \* the check_paint_screenshot invocation
    edited,         \* the documents edited by hand since the last capture
    manifestView,   \* what a concurrent reader of the manifest path last read
    sse             \* one /api/cards/paint-example/events stream of the inspector panel

mainVars == <<baselineFile, pc, args, reports, results, outfile, failures,
              exitCode, outcome, priorFile, readerView>>
evalVars == <<evIn, evOut>>
paintVars == <<manifestFile, markerFile, changelogFile, baselinePng, artifacts,
               paintBinary, reportFile, mon, cap, shot, edited, manifestView>>
panelVars == <<sse>>
vars == <<baselineFile, pc, args, reports, results, outfile, failures,
          exitCode, outcome, priorFile, readerView, evIn, evOut,
          manifestFile, markerFile, changelogFile, baselinePng, artifacts,
          paintBinary, reportFile, mon, cap, shot, edited, manifestView, sse>>

----------------------------------------------------------------------------
(* Bounds of the model.                                                    *)

\* baselines of the direct calls are 500 * k hundredths, k in -MaxK..MaxK
MaxK == 2
\* their fresh values are baseline + 10 * d hundredths, d in -MaxD..MaxD
MaxD == 16
\* a producer reports the values 4000 * k hundredths, k in 1..MaxSample
MaxSample == 2

----------------------------------------------------------------------------
(* Python builtins and optional values.                                    *)

Abs(x) == IF x < 0 THEN -x ELSE x

Max(x, y) == IF x >= y THEN x ELSE y

None == <<>>

Some(v) == <<v>>

EmptyMap == [k \in {} |-> 0]

\* dict.get(key): None when the key is absent
Get(map, key) == IF key \in DOMAIN map THEN Some(map[key]) ELSE None

----------------------------------------------------------------------------
(* Python floats.                                                          *)
(*                                                                         *)
(* A float is an IEEE 754 double.  The model computes with doubles as the  *)
(* interpreter does: a double is [neg, m, e], standing for the number      *)
(* (-1)^neg * m * 2^e, and every operation rounds its exact result to 53   *)
(* significant bits, ties to even.  The values of the model are far from   *)
(* the largest and the smallest double, so overflow and subnormal numbers  *)
(* are left out.  The significand m is a natural number of any size: a     *)
(* sequence of limbs in 0 .. 2^15 - 1, least significant first and without *)
(* a zero limb at the end (the empty sequence is 0).                       *)

Limb == 2^15

Min(x, y) == IF x <= y THEN x ELSE y

Zeros(n) == [ i \in 1..n |-> 0 ]

LimbAt(a, i) == IF i <= Len(a) THEN a[i] ELSE 0

RECURSIVE BigNorm(_)
BigNorm(a) ==
    IF a # << >> /\ a[Len(a)] = 0 THEN BigNorm(SubSeq(a, 1, Len(a) - 1)) ELSE a

RECURSIVE BigOfInt(_)
BigOfInt(n) == IF n = 0 THEN << >> ELSE << n % Limb >> \o BigOfInt(n \div Limb)

RECURSIVE BigToInt(_)
BigToInt(a) == IF a = << >> THEN 0 ELSE a[1] + Limb * BigToInt(Tail(a))

RECURSIVE BigAddFrom(_, _, _, _)
BigAddFrom(a, b, i, carry) ==
    IF i > Len(a) /\ i > Len(b)
    THEN IF carry = 0 THEN << >> ELSE << carry >>
    ELSE LET s == LimbAt(a, i) + LimbAt(b, i) + carry
         IN  << s % Limb >> \o BigAddFrom(a, b, i + 1, s \div Limb)

BigAdd(a, b) == BigAddFrom(a, b, 1, 0)

RECURSIVE BigSubFrom(_, _, _, _)
BigSubFrom(a, b, i, borrow) ==
    IF i > Len(a) THEN << >>
    ELSE LET d == a[i] - LimbAt(b, i) - borrow
         IN  << d % Limb >> \o BigSubFrom(a, b, i + 1, IF d < 0 THEN 1 ELSE 0)

\* a - b, for a >= b
BigSub(a, b) == BigNorm(BigSubFrom(a, b, 1, 0))

RECURSIVE BigCmpFrom(_, _, _)
BigCmpFrom(a, b, i) ==
    IF i = 0 THEN 0
    ELSE IF a[i] # b[i] THEN ( IF a[i] < b[i] THEN 0 - 1 ELSE 1 )
    ELSE BigCmpFrom(a, b, i - 1)

\* -1, 0 or 1 as a is less than, equal to or greater than b
BigCmp(a, b) ==
    IF Len(a) # Len(b) THEN ( IF Len(a) < Len(b) THEN 0 - 1 ELSE 1 )
    ELSE BigCmpFrom(a, b, Len(a))

RECURSIVE BigMulSmallFrom(_, _, _, _)
BigMulSmallFrom(a, k, i, carry) ==
    IF i > Len(a) THEN BigOfInt(carry)
    ELSE LET p == a[i] * k + carry
         IN  << p % Limb >> \o BigMulSmallFrom(a, k, i + 1, p \div Limb)

\* a * k, for 0 <= k < Limb
BigMulSmall(a, k) == IF k = 0 THEN << >> ELSE BigMulSmallFrom(a, k, 1, 0)

RECURSIVE BigMulFrom(_, _, _)
BigMulFrom(a, b, j) ==
    IF j > Len(b) THEN << >>
    ELSE BigAdd(IF b[j] = 0 THEN << >> ELSE Zeros(j - 1) \o BigMulSmall(a, b[j]),
                BigMulFrom(a, b, j + 1))

BigMul(a, b) == IF a = << >> THEN << >> ELSE BigMulFrom(a, b, 1)

RECURSIVE BigDivModFrom(_, _, _, _)
BigDivModFrom(a, d, i, rem) ==
    IF i = 0 THEN [q |-> << >>, r |-> rem]
    ELSE LET cur == rem * Limb + a[i]
             rest == BigDivModFrom(a, d, i - 1, cur % d)
         IN  [q |-> rest.q \o << cur \div d >>, r |-> rest.r]

DivModNorm(x) == [q |-> BigNorm(x.q), r |-> x.r]

\* quotient and remainder of a by d, for 0 < d < Limb
BigDivMod(a, d) == DivModNorm(BigDivModFrom(a, d, Len(a), 0))

\* a * 2^n
BigShl(a, n) ==
    IF a = << >> THEN << >>
    ELSE Zeros(n \div 15) \o BigMulSmall(a, 2^(n % 15))

\* floor(a / 2^n)
BigShr(a, n) ==
    IF n \div 15 >= Len(a) THEN << >>
    ELSE BigDivMod(SubSeq(a, n \div 15 + 1, Len(a)), 2^(n % 15)).q

\* a mod 2^n
BigLow(a, n) ==
    BigNorm([ i \in 1..Min(Len(a), n \div 15 + 1) |->
                IF i <= n \div 15 THEN a[i] ELSE a[i] % 2^(n % 15) ])

RECURSIVE IntBits(_)
IntBits(n) == IF n = 0 THEN 0 ELSE 1 + IntBits(n \div 2)

\* the number of bits of a
BigBits(a) == IF a = << >> THEN 0 ELSE 15 * (Len(a) - 1) + IntBits(a[Len(a)])

RECURSIVE IntTrailingZeros(_)
IntTrailingZeros(n) == IF n % 2 = 1 THEN 0 ELSE 1 + IntTrailingZeros(n \div 2)

\* the double (-1)^neg * m * 2^e, for m of at most 53 bits, written with an
\* odd m (or as 0 * 2^0): equal doubles are equal records
RECURSIVE fl_make(_, _, _)
fl_make(neg, m, e) ==
    IF m = << >> THEN [neg |-> FALSE, m |-> << >>, e |-> 0]
    ELSE IF m[1] = 0 THEN fl_make(neg, Tail(m), e + 15)
    ELSE [neg |-> neg, m |-> BigShr(m, IntTrailingZeros(m[1])),
          e |-> e + IntTrailingZeros(m[1])]

\* the double nearest to (-1)^neg * (m + f) * 2^e, where 0 <= f < 1 and
\* `sticky` tells whether f > 0 (then m has more than 53 bits)
\* hi or hi + 1: hi + f to the nearest integer, a half to the even one,
\* where c is -1, 0 or 1 as f (without what `sticky` stands for) is less
\* than, equal to or more than a half
RoundHalfEven(hi, c, sticky) ==
    IF c > 0 \/ ( c = 0 /\ ( sticky \/ hi[1] % 2 = 1 ) )
    THEN BigAdd(hi, << 1 >>) ELSE hi

\* m / 2^s to the nearest integer
BigRoundShr(m, s, sticky) ==
    RoundHalfEven(BigShr(m, s), BigCmp(BigLow(m, s), BigShl(<< 1 >>, s - 1)),
                  sticky)

\* fl_round for an m of n bits
fl_round_bits(neg, m, e, sticky, n) ==
    IF n <= 53 THEN fl_make(neg, m, e)
    ELSE fl_make(neg, BigRoundShr(m, n - 53, sticky), e + ( n - 53 ))

fl_round(neg, m, e, sticky) == fl_round_bits(neg, m, e, sticky, BigBits(m))

\* the double nearest to (-1)^neg * (x.q + x.r / d) * 2^e
fl_round_divmod(neg, x, e) == fl_round(neg, x.q, e, x.r # 0)

\* the double nearest to n / d for integers n and 0 < d < Limb: the value
\* float() and json.load give the decimal numeral n/100, and the quotient
\* n / 100.0 of two doubles that hold integers
fl_quot(n, d) ==
    fl_round_divmod(n < 0, BigDivMod(BigShl(BigOfInt(Abs(n)), 75), d), 0 - 75)

\* float(n) of an integer, and of the numeral of an integer
FloatOfInt(n) == fl_quot(n, 1)

\* x * y
fl_mul(x, y) == fl_round(x.neg # y.neg, BigMul(x.m, y.m), x.e + y.e, FALSE)

\* (-1)^xneg * a + (-1)^yneg * b as a sign and a magnitude
SignedSum(xneg, a, yneg, b) ==
    IF xneg = yneg THEN [neg |-> xneg, m |-> BigAdd(a, b)]
    ELSE IF BigCmp(a, b) >= 0 THEN [neg |-> xneg, m |-> BigSub(a, b)]
    ELSE [neg |-> yneg, m |-> BigSub(b, a)]

fl_round_signed(sum, e) == fl_round(sum.neg, sum.m, e, FALSE)

\* x + y, with both significands brought to the exponent e
fl_add_at(x, y, e) ==
    fl_round_signed(SignedSum(x.neg, BigShl(x.m, x.e - e),
                              y.neg, BigShl(y.m, y.e - e)), e)

\* x + y
fl_add(x, y) == fl_add_at(x, y, Min(x.e, y.e))

\* -x
fl_neg(x) == [x EXCEPT !.neg = ~x.neg /\ x.m # << >>]

\* x - y
fl_sub(x, y) == fl_add(x, fl_neg(y))

\* abs(x)
fl_abs(x) == [x EXCEPT !.neg = FALSE]

\* -1, 0 or 1 as x < y, x == y or x > y
fl_cmp_at(x, y, e) ==
    IF x.neg # y.neg THEN ( IF x.neg THEN 0 - 1 ELSE 1 )
    ELSE IF x.neg THEN BigCmp(BigShl(y.m, y.e - e), BigShl(x.m, x.e - e))
    ELSE BigCmp(BigShl(x.m, x.e - e), BigShl(y.m, y.e - e))

fl_cmp(x, y) == fl_cmp_at(x, y, Min(x.e, y.e))

\* max(x, y): the first argument unless the second is greater
fl_max(x, y) == IF fl_cmp(y, x) > 0 THEN y ELSE x

\* int(x): the integer part, towards zero
fl_int(x) ==
    ( IF x.neg THEN 0 - 1 ELSE 1 )
      * BigToInt(IF x.e >= 0 THEN BigShl(x.m, x.e) ELSE BigShr(x.m, 0 - x.e))

\* float.__repr__(x), which json.dump writes for a float: the shortest
\* decimal numeral that float() turns back into x.  For a double that is
\* the nearest one to a numeral of whole `scale`-ths (scale is 1 or 100)
\* this is that numeral: x * scale, exactly, to the nearest integer
float_repr(x, scale) ==
    ( IF x.neg THEN 0 - 1 ELSE 1 )
      * BigToInt(IF x.e >= 0 THEN BigShl(BigMulSmall(x.m, scale), x.e)
                 ELSE BigRoundShr(BigMulSmall(x.m, scale), 0 - x.e, FALSE))

----------------------------------------------------------------------------
(* The paint_example scripts before any of them has run.                   *)

\* no file at a path that should hold a PNG
NoPng == [exists |-> FALSE, valid |-> FALSE, width |-> 0, height |-> 0,
          content |-> ""]

\* paint_example_monitor not running
MonIdle ==
    [ pc |-> "idle", tags |-> None, required |-> << >>, i |-> 0,
      revision |-> None, expected |-> None, report |-> << >>,
      wrote |-> FALSE, exit |-> None, stderr |-> << >> ]

\* paint_example_capture not running; `tmp` is the manifest's sibling
\* .tmp file, `found` the manifest file as the run found it
CapIdle ==
    [ pc |-> "idle", tags |-> None, dry_run |-> FALSE, todo |-> << >>, i |-> 0,
      manifest |-> None, updated |-> FALSE,
      tmp |-> [exists |-> FALSE, doc |-> None],
      found |-> [exists |-> FALSE, doc |-> None],
      exit |-> None, stderr |-> << >> ]

\* check_paint_screenshot not running
ShotIdle ==
    [ pc |-> "idle", width |-> 0, height |-> 0, tag |-> None, baseline |-> "",
      revision |-> None, sha |-> None, attempts |-> << >>, exit |-> None,
      stderr |-> << >> ]

\* history of the baseline-update protocol: whether a capture has rewritten
\* the manifest, whether the marker and the palette log were edited since,
\* and whether, when that capture ended, the palette log had a header for
\* the new revision (logHad) and the marker held another integer
\* (markerOff); at first nothing has been captured or edited
NotEdited ==
    [ capture |-> FALSE, marker |-> FALSE, changelog |-> FALSE,
      logHad |-> FALSE, markerOff |-> FALSE ]

\* no client is connected to the inspector panel's event stream; `fetched`
\* is the result of the latest fetch_card, `sent` the events written to the
\* stream
SseIdle ==
    [ pc |-> "closed", fetched |-> None, last_good |-> None,
      last_error |-> None, sent |-> << >> ]

\* a checkout with none of the documents and no build; no panel stream
PaintIdle ==
    /\ manifestFile = [exists |-> FALSE, doc |-> None]
    /\ markerFile = [exists |-> FALSE, text |-> [kind |-> "empty", value |-> 0]]
    /\ changelogFile = [exists |-> FALSE, lines |-> << >>]
    /\ baselinePng = << >>
    /\ artifacts = << >>
    /\ paintBinary = FALSE
    /\ reportFile = None
    /\ mon = MonIdle
    /\ cap = CapIdle
    /\ shot = ShotIdle
    /\ edited = NotEdited
    /\ manifestView = None
    /\ sse = SseIdle

----------------------------------------------------------------------------
(* Tolerance, ScenarioDefinition and the SCENARIOS registry.               *)

Tolerance(direction, percent, absolute) ==
    [direction |-> direction, percent |-> percent, absolute |-> absolute]

PathRendererTolerances ==
    ( "full.avgMs" :> Tolerance("increase", Some(15), Some(150)) ) @@
    ( "full.fps" :> Tolerance("decrease", Some(15), Some(2000)) ) @@
    ( "incremental.avgMs" :> Tolerance("increase", Some(20), Some(50)) ) @@
    ( "incremental.fps" :> Tolerance("decrease", Some(20), Some(10000)) ) @@
    ( "incremental.damage.averageCoverage" :> Tolerance("increase", Some(25), Some(5)) ) @@
    ( "incremental.damage.averageTilesDirty" :> Tolerance("increase", Some(35), Some(2500)) )

PixelNoiseTolerances ==
    ( "summary.averageFps" :> Tolerance("decrease", Some(12), Some(1500)) ) @@
    ( "summary.averageRenderMs" :> Tolerance("increase", Some(20), Some(40)) ) @@
    ( "summary.averagePresentCallMs" :> Tolerance("increase", Some(25), Some(300)) ) @@
    ( "tileStats.averageBytesCopied" :> Tolerance("increase", Some(25), Some(20000000)) )

SCENARIOS ==
    << [name |-> "path_renderer2d", tolerances |-> PathRendererTolerances],
       [name |-> "pixel_noise_software", tolerances |-> PixelNoiseTolerances] >>

ScenarioNames == { SCENARIOS[i].name : i \in 1..Len(SCENARIOS) }

\* the module's SCENARIOS as main() finds it: the list of the source, or
\* the list a caller of main() has assigned to it
Registry == IF "SCENARIOS" \in DOMAIN evIn THEN evIn.SCENARIOS ELSE SCENARIOS

\* the keys of _scenario_map()
RegistryNames == { Registry[i].name : i \in 1..Len(Registry) }

\* _scenario_map()[name]
scenario_map(name) ==
    Registry[CHOOSE i \in 1..Len(Registry) : Registry[i].name = name]

----------------------------------------------------------------------------
(* The tolerance evaluation.                                               *)

\* float(value), for a number that a JSON document, a producer's output or
\* the script's source gives as the decimal numeral value / 100
Float(value) == fl_quot(value, 100)

\* float(value) of an optional number
OptFloat(opt) == IF opt = None THEN None ELSE Some(Float(opt[1]))

\* _max_tolerance(baseline, percent, absolute): `baseline` and `absolute`
\* are doubles, `percent` is a double that holds an integer
max_tolerance(baseline, percent, absolute) ==
    LET percent_val == IF percent # None
                       THEN fl_mul(fl_abs(baseline), fl_quot(percent[1], 100))
                       ELSE Float(0)
        abs_val == IF absolute # None THEN absolute[1] ELSE Float(0)
    IN  fl_max(percent_val, fl_abs(abs_val))

\* the comparison with >= and <= in place of > and <
MetricVerdictInclusive(baseline_value, actual_value, tol) ==
    LET allowed == max_tolerance(Float(baseline_value), tol.percent,
                                 OptFloat(tol.absolute))
    IN  IF tol.direction = "increase"
        THEN IF fl_cmp(Float(actual_value),
                       fl_add(Float(baseline_value), allowed)) >= 0
             THEN "regressed" ELSE "ok"
        ELSE IF tol.direction = "decrease"
        THEN IF fl_cmp(Float(actual_value),
                       fl_sub(Float(baseline_value), allowed)) <= 0
             THEN "dropped" ELSE "ok"
        ELSE "unsupported"

\* compare_metrics, the branches on tol.direction: the three numbers are
\* doubles
LimitVerdict(baseline_value, actual_value, direction, allowed) ==
    IF direction = "increase"
    THEN IF fl_cmp(actual_value, fl_add(baseline_value, allowed)) > 0
         THEN "regressed" ELSE "ok"
    ELSE IF direction = "decrease"
    THEN IF fl_cmp(actual_value, fl_sub(baseline_value, allowed)) < 0
         THEN "dropped" ELSE "ok"
    ELSE "unsupported"

\* compare_metrics, from `allowed = ...` to the end of the loop body, on
\* doubles
FloatVerdict(baseline_value, actual_value, tol) ==
    LimitVerdict(baseline_value, actual_value, tol.direction,
                 max_tolerance(baseline_value, tol.percent, OptFloat(tol.absolute)))

\* compare_metrics, from `allowed = ...` to the end of the loop body; the
\* two values are the hundredths the documents give
MetricVerdict(baseline_value, actual_value, tol) ==
    FloatVerdict(Float(baseline_value), Float(actual_value), tol)

\* Tolerance(direction=direction if direction else "increase", ...)
ToleranceFromInfo(tol_info) ==
    Tolerance(IF tol_info.direction # None /\ tol_info.direction[1] # ""
              THEN tol_info.direction[1] ELSE "increase",
              tol_info.percent, tol_info.absolute)

\* one entry of the `problems` list
Problem(scenario_name, metric_name, kind) ==
    [scenario |-> scenario_name, metric |-> metric_name, kind |-> kind]

\* the loop body skipping a metric the fresh run lacks without a problem
CompareOneSkipping(baseline, scenario, result, metric_name) ==
    IF metric_name \notin DOMAIN result.metrics
    THEN << >>
    ELSE LET baseline_value == baseline.metrics[metric_name]
             actual_value == result.metrics[metric_name]
             tol_info == Get(baseline.tolerances, metric_name)
             scenario_tol == Get(scenario.tolerances, metric_name)
         IN  IF tol_info = None /\ scenario_tol = None
             THEN << Problem(scenario.name, metric_name, "unconfigured") >>
             ELSE LET tol == IF tol_info = None THEN scenario_tol[1]
                             ELSE ToleranceFromInfo(tol_info[1])
                      verdict == MetricVerdict(baseline_value, actual_value, tol)
                  IN  IF verdict = "ok" THEN << >>
                      ELSE << Problem(scenario.name, metric_name, verdict) >>

\* the body of compare_metrics' loop for one baseline metric: the problems
\* it appends (none, or one)
CompareOne(baseline, scenario, result, metric_name) ==
    IF metric_name \notin DOMAIN result.metrics
    THEN << Problem(scenario.name, metric_name, "missing") >>
    ELSE LET baseline_value == baseline.metrics[metric_name]
             actual_value == result.metrics[metric_name]
             tol_info == Get(baseline.tolerances, metric_name)
             scenario_tol == Get(scenario.tolerances, metric_name)
         IN  IF tol_info = None /\ scenario_tol = None
             THEN << Problem(scenario.name, metric_name, "unconfigured") >>
             ELSE LET tol == IF tol_info = None THEN scenario_tol[1]
                             ELSE ToleranceFromInfo(tol_info[1])
                      verdict == MetricVerdict(baseline_value, actual_value, tol)
                  IN  IF verdict = "ok" THEN << >>
                      ELSE << Problem(scenario.name, metric_name, verdict) >>

\* every metric name of the model, in the order of Python's string comparison
MetricOrder ==
    << "full.avgMs", "full.fps", "full.minMs", "incremental.avgMs",
       "incremental.damage.averageCoverage", "incremental.damage.averageTilesDirty",
       "incremental.fps", "summary.averageFps", "summary.averagePresentCallMs",
       "summary.averageRenderMs", "tileStats.averageBytesCopied" >>

\* the keys of a metric map in the order json.dump(sort_keys=True) writes
\* them
SortedKeys(map) ==
    LET InMap(k) == k \in DOMAIN map IN SelectSeq(MetricOrder, InMap)

\* the loop leaving at the first problem instead of going on
RECURSIVE CompareFromStopping(_, _, _, _, _)
CompareFromStopping(baseline, scenario, result, keys, i) ==
    IF i > Len(keys) THEN << >>
    ELSE LET found == CompareOne(baseline, scenario, result, keys[i])
         IN  IF found # << >> THEN found
             ELSE CompareFromStopping(baseline, scenario, result, keys, i + 1)

\* compare_metrics' loop `for metric_name, baseline_value in ...items()`
RECURSIVE CompareFrom(_, _, _, _, _)
CompareFrom(baseline, scenario, result, keys, i) ==
    IF i > Len(keys) THEN << >>
    ELSE CompareOne(baseline, scenario, result, keys[i])
         \o CompareFrom(baseline, scenario, result, keys, i + 1)

\* compare_metrics also reporting the tracked metrics of the fresh run that
\* the baseline lacks
compare_metrics_fresh_too(baseline, scenario, result) ==
    LET Extra(k) == /\ k \in DOMAIN result.metrics
                    /\ k \in DOMAIN scenario.tolerances
                    /\ k \notin DOMAIN baseline.metrics
        extra == SelectSeq(MetricOrder, Extra)
    IN  CompareFrom(baseline, scenario, result, baseline.keys, 1)
        \o [ i \in 1..Len(extra) |-> Problem(scenario.name, extra[i], "unconfigured") ]

\* compare_metrics(baseline, scenario, result): the list `problems`;
\* expected_metrics.items() yields the members of "metrics" in the order
\* they have in the baseline document
compare_metrics(baseline, scenario, result) ==
    CompareFrom(baseline, scenario, result, baseline.keys, 1)

----------------------------------------------------------------------------
(* The baseline document and its file.                                     *)
(*                                                                         *)
(* A file is [exists, text]; its text is a sequence of tokens, the pieces  *)
(* json.dump hands to the stream: the opening brace, the "generatedAt"     *)
(* member, one member of "scenarios" per scenario in sorted key order, the *)
(* closing brace, and the newline _dump_json writes last.  A scenario's    *)
(* "metadata" is not compared by anything and is left out.  A member of    *)
(* "scenarios" is [metrics, tolerances, keys]: `keys` lists the members of *)
(* "metrics" in the order they have in the text, which is the order        *)
(* json.load and dict.items() return them in.  In the text the values are  *)
(* JSON values (null, a numeral, a string); json.dump writes them from the *)
(* values of the program and json.load turns them back.                    *)

NoFile == [exists |-> FALSE, text |-> << >>]

NoEntry == [metrics |-> EmptyMap, tolerances |-> EmptyMap, keys |-> << >>]

Token(t, name, entry) == [t |-> t, name |-> name, entry |-> entry]

\* the JSON values of the text: null, a number as the decimal numeral
\* written (in hundredths for a metric or an "absolute", in units for a
\* "percent"), a string
NullLit == [kind |-> "null", numeral |-> 0, s |-> ""]

NumberLit(numeral) == [kind |-> "number", numeral |-> numeral, s |-> ""]

StringLit(s) == [kind |-> "string", numeral |-> 0, s |-> s]

\* json.dump of a str or None
dump_str(opt) == IF opt = None THEN NullLit ELSE StringLit(opt[1])

\* json.dump of a float or None: `opt` holds the double
dump_float(opt, scale) ==
    IF opt = None THEN NullLit ELSE NumberLit(float_repr(opt[1], scale))

\* float(percent) of an Optional[float] that holds an integer
OptFloatOfInt(opt) == IF opt = None THEN None ELSE Some(FloatOfInt(opt[1]))

\* json.dump of {"direction": ..., "percent": ..., "absolute": ...}
dump_tolerance(tol_info) ==
    [ direction |-> dump_str(tol_info.direction),
      percent |-> dump_float(OptFloatOfInt(tol_info.percent), 1),
      absolute |-> dump_float(OptFloat(tol_info.absolute), 100) ]

\* json.dump of one member of "scenarios": the metric values are floats
dump_entry(entry) ==
    [ metrics |-> [ metric \in DOMAIN entry.metrics |->
                      dump_float(Some(Float(entry.metrics[metric])), 100) ],
      tolerances |-> [ metric \in DOMAIN entry.tolerances |->
                         dump_tolerance(entry.tolerances[metric]) ],
      keys |-> SortedKeys(entry.metrics) ]

\* json.load of a JSON value, and dict.get of a member that is null: None
\* for null, the float of a numeral (held as the numeral), the str
load_value(lit) ==
    IF lit.kind = "null" THEN None
    ELSE IF lit.kind = "number" THEN Some(lit.numeral)
    ELSE Some(lit.s)

\* json.load of a tolerance object
load_tolerance(object) ==
    Tolerance(load_value(object.direction), load_value(object.percent),
              load_value(object.absolute))

\* json.load of one member of "scenarios"
load_entry(object) ==
    [ metrics |-> [ metric \in DOMAIN object.metrics |->
                      object.metrics[metric].numeral ],
      tolerances |-> [ metric \in DOMAIN object.tolerances |->
                         load_tolerance(object.tolerances[metric]) ],
      keys |-> object.keys ]

\* the scenario names in the order of Python's string comparison
ScenarioOrder == << "path_renderer2d", "pixel_noise_software" >>

RECURSIVE ScenarioTokens(_, _, _)
ScenarioTokens(scenarios, keys, i) ==
    IF i > Len(keys) THEN << >>
    ELSE << Token("scenario", keys[i], dump_entry(scenarios[keys[i]])) >>
         \o ScenarioTokens(scenarios, keys, i + 1)

\* the text json.dump(payload, outfile, indent=2, sort_keys=True) and the
\* final outfile.write("\n") produce
json_dump(payload) ==
    LET InPayload(k) == k \in DOMAIN payload.scenarios
    IN  << Token("{", "", NoEntry), Token("generatedAt", "", NoEntry) >>
        \o ScenarioTokens(payload.scenarios, SelectSeq(ScenarioOrder, InPayload), 1)
        \o << Token("}", "", NoEntry), Token("\n", "", NoEntry) >>

\* json.load accepts the text: one complete object, then only whitespace
json_parses(text) ==
    /\ Len(text) >= 2
    /\ text[1].t = "{"
    /\ \E c \in 2..Len(text) :
         /\ text[c].t = "}"
         /\ \A i \in 2..(c - 1) : text[i].t \in {"generatedAt", "scenario"}
         /\ \A i \in (c + 1)..Len(text) : text[i].t = "\n"

\* the member of "scenarios" the text has for a name
scenario_object(text, name) ==
    text[CHOOSE i \in 1..Len(text) :
            text[i].t = "scenario" /\ text[i].name = name].entry

\* _load_json(path).get("scenarios", {}) of a text json.load accepts
json_load_scenarios(text) ==
    LET at == { i \in 1..Len(text) : text[i].t = "scenario" }
    IN  [ name \in { text[i].name : i \in at } |->
            load_entry(scenario_object(text, name)) ]

\* baseline_path.exists()
path_exists(file) == file.exists

----------------------------------------------------------------------------
(* Producers.                                                              *)

SampleValues == { 4000 * k : k \in 1..MaxSample }

\* the metrics a scenario's producer may report: some of the ones the
\* scenario declares a tolerance for, and one it declares none for
ProducerMetrics(name) ==
    IF name = "path_renderer2d"
    THEN { "full.avgMs", "full.minMs" }
    ELSE { "summary.averageFps" }

\* the values a producer may report for a metric; 1.10 is not a double
ProducerValues(metric) ==
    IF metric = "full.minMs" THEN { 4000 }
    ELSE IF metric = "full.avgMs" THEN SampleValues \cup { 110 }
    ELSE SampleValues

\* every metric map a scenario's producer may report
ProducerReports(name) ==
    UNION { { f \in [present -> SampleValues \cup { 4000, 110 }] :
                \A m \in present : f[m] \in ProducerValues(m) } :
            present \in SUBSET ProducerMetrics(name) }

\* what a scenario's producer may do once launched: its exit status, and
\* the report file it leaves at report_path: a JSON object with some
\* metrics ("valid"), no file ("missing"), or text json.load rejects
\* ("malformed")
ProducerOutcomes(name) ==
    { [returncode |-> returncode, report |-> "valid", metrics |-> metrics] :
        returncode \in {0, 1}, metrics \in ProducerReports(name) }
    \cup { [returncode |-> returncode, report |-> report, metrics |-> EmptyMap] :
             returncode \in {0, 1}, report \in { "missing", "malformed" } }

----------------------------------------------------------------------------
(* main(): one invocation of perf_guardrail after another, on one baseline *)
(* file.                                                                   *)

\* the values of args.scenarios after select_scenarios: "all" or a list of
\* names, and a list naming no scenario (--scenarios ",")
Selections ==
    { << >>, << "path_renderer2d" >>, << "pixel_noise_software" >>,
      << "path_renderer2d", "pixel_noise_software" >> }

\* the set of the elements of a sequence
Range(seq) == { seq[i] : i \in 1..Len(seq) }

\* PerfContext.run with allow_fail forced on: a failed command is not raised
ctx_run_ignores(returncode, allow_fail) == FALSE

\* PerfContext.run raises RuntimeError("command failed ...")
ctx_run_raises(returncode, allow_fail) == returncode # 0 /\ ~allow_fail

\* result.metrics = {key: value ... if key in scenario.tolerances}
FilterMetrics(metrics, scenario) ==
    [ key \in DOMAIN metrics \cap DOMAIN scenario.tolerances |-> metrics[key] ]

\* the "tolerances" object with every "absolute" written as null
StoredTolerancesNoAbsolute(scenario) ==
    [ metric \in DOMAIN scenario.tolerances |->
        Tolerance(Some(scenario.tolerances[metric].direction),
                  scenario.tolerances[metric].percent,
                  None) ]

\* the "tolerances" object main stores for a scenario
StoredTolerances(scenario) ==
    [ metric \in DOMAIN scenario.tolerances |->
        Tolerance(Some(scenario.tolerances[metric].direction),
                  scenario.tolerances[metric].percent,
                  scenario.tolerances[metric].absolute) ]

\* baseline_payload starting from the scenarios already stored
BaselinePayloadMerging ==
    LET old == IF priorFile.exists /\ json_parses(priorFile.text)
               THEN json_load_scenarios(priorFile.text) ELSE EmptyMap
        new == [ name \in Range(args.scenarios) |->
                   [ metrics |-> results[name],
                     tolerances |-> StoredTolerances(scenario_map(name)) ] ]
    IN  [ scenarios |-> new @@ old ]

\* baseline_payload["scenarios"][scenario.name]
scenario_entry(scenario, metrics) ==
    [ metrics |-> metrics, tolerances |-> StoredTolerances(scenario) ]

\* baseline_payload of a --write-baseline run
BaselinePayload ==
    [ scenarios |->
        [ name \in Range(args.scenarios) |->
            scenario_entry(scenario_map(name), results[name]) ] ]

\* main's loop over the scenarios without the `missing from baseline` entry
RECURSIVE check_failures_skipping(_, _, _, _)
check_failures_skipping(baseline_scenarios, scenarios, res, i) ==
    IF i > Len(scenarios) THEN << >>
    ELSE ( IF scenarios[i] \notin DOMAIN baseline_scenarios THEN << >>
           ELSE compare_metrics(baseline_scenarios[scenarios[i]],
                                scenario_map(scenarios[i]),
                                [metrics |-> res[scenarios[i]]]) )
         \o check_failures_skipping(baseline_scenarios, scenarios, res, i + 1)

\* main's loop over the scenarios that fills `failures`
RECURSIVE check_failures(_, _, _, _)
check_failures(baseline_scenarios, scenarios, res, i) ==
    IF i > Len(scenarios) THEN << >>
    ELSE ( IF scenarios[i] \notin DOMAIN baseline_scenarios
           THEN << Problem(scenarios[i], "", "scenario_missing") >>
           ELSE compare_metrics(baseline_scenarios[scenarios[i]],
                                scenario_map(scenarios[i]),
                                [metrics |-> res[scenarios[i]]]) )
         \o check_failures(baseline_scenarios, scenarios, res, i + 1)

Terminate(code, message) ==
    /\ pc' = "done"
    /\ exitCode' = Some(code)
    /\ outcome' = message

\* a new invocation: parse_args and select_scenarios, which raises
\* SystemExit("unknown scenario ...") for a name _scenario_map() lacks
Launch ==
    /\ pc = "idle"
    /\ \E write_baseline \in BOOLEAN, scenarios \in Selections :
         /\ args' = [write_baseline |-> write_baseline, scenarios |-> scenarios]
         /\ IF Range(scenarios) \subseteq RegistryNames
            THEN pc' = "start" /\ UNCHANGED <<exitCode, outcome>>
            ELSE Terminate(1, "unknown_scenario")
    /\ priorFile' = baselineFile
    /\ UNCHANGED <<baselineFile, reports, results, outfile, failures,
                   readerView, evalVars, paintVars, panelVars>>

\* `if not scenarios: ... return 0`
NothingToDo ==
    /\ pc = "start"
    /\ args.scenarios = << >>
    /\ Terminate(0, "nothing_to_do")
    /\ UNCHANGED <<baselineFile, args, reports, results, outfile, failures,
                   priorFile, readerView, evalVars, paintVars, panelVars>>

\* ctx.ensure_configured() and build_required_targets(): the cmake commands
\* exit 0, or one of them fails and ctx.run raises
ConfigureAndBuild ==
    /\ pc = "start"
    /\ args.scenarios # << >>
    /\ \E returncode \in {0, 1} :
         IF ctx_run_raises(returncode, FALSE)
         THEN Terminate(1, "command_failed")
         ELSE pc' = "run" /\ UNCHANGED <<exitCode, outcome>>
    /\ UNCHANGED <<baselineFile, args, reports, results, outfile, failures,
                   priorFile, readerView, evalVars, paintVars, panelVars>>

\* one pass of `for scenario in scenarios: result = scenario.runner(ctx)`.
\* ctx.locate_binary finds the producer or raises FileNotFoundError;
\* ctx.run starts it with subprocess.run, once, and raises RuntimeError
\* when it exits non-zero; _load_json(report_path) returns the report or
\* raises (no file, or no JSON).  An exception leaves main and the
\* interpreter exits with status 1.
RunScenario ==
    /\ pc = "run"
    /\ LET i == Cardinality(DOMAIN reports) + 1
           name == args.scenarios[i]
           scenario == scenario_map(name)
       IN  \/ /\ Terminate(1, "binary_not_found")
              /\ UNCHANGED <<reports, results>>
           \/ \E produced \in ProducerOutcomes(name) :
                /\ reports' = reports @@
                       (name :> [returncode |-> produced.returncode,
                                 report |-> produced.report,
                                 metrics |-> produced.metrics,
                                 launches |-> 1])
                /\ IF ctx_run_raises(produced.returncode, FALSE)
                   THEN /\ Terminate(1, "command_failed")
                        /\ UNCHANGED results
                   ELSE IF produced.report = "missing"
                   THEN /\ Terminate(1, "report_not_found")
                        /\ UNCHANGED results
                   ELSE IF produced.report = "malformed"
                   THEN /\ Terminate(1, "report_decode_error")
                        /\ UNCHANGED results
                   ELSE /\ results' = results @@
                               (name :> FilterMetrics(produced.metrics, scenario))
                        /\ pc' = IF i < Len(args.scenarios) THEN "run"
                                 ELSE IF args.write_baseline THEN "write" ELSE "check"
                        /\ UNCHANGED <<exitCode, outcome>>
    /\ UNCHANGED <<baselineFile, args, outfile, failures, priorFile, readerView,
                   evalVars, paintVars, panelVars>>

\* _dump_json: path.open("w") truncates the baseline file; json.dump's text
\* sits in the stream's buffer
DumpOpen ==
    /\ pc = "write"
    /\ baselineFile' = [exists |-> TRUE, text |-> << >>]
    /\ outfile' = json_dump(BaselinePayload)
    /\ pc' = "dump"
    /\ UNCHANGED <<args, reports, results, failures, exitCode, outcome, priorFile,
                   readerView, evalVars, paintVars, panelVars>>

\* the stream flushes part of its buffer to the file
DumpFlush ==
    /\ pc = "dump"
    /\ \E k \in 1..(Len(outfile) - 1) :
         /\ baselineFile' = [baselineFile EXCEPT !.text = @ \o SubSeq(outfile, 1, k)]
         /\ outfile' = SubSeq(outfile, k + 1, Len(outfile))
    /\ UNCHANGED <<pc, args, reports, results, failures, exitCode, outcome,
                   priorFile, readerView, evalVars, paintVars, panelVars>>

\* the `with` block ends: the rest is flushed, the file closed; `return 0`
DumpClose ==
    /\ pc = "dump"
    /\ baselineFile' = [baselineFile EXCEPT !.text = @ \o outfile]
    /\ outfile' = << >>
    /\ Terminate(0, "baseline_written")
    /\ UNCHANGED <<args, reports, results, failures, priorFile, readerView, evalVars, paintVars, panelVars>>

\* the check of a missing baseline leaving an empty file at its path
BaselineNotFoundTouching ==
    /\ pc = "check"
    /\ ~path_exists(baselineFile)
    /\ baselineFile' = [exists |-> TRUE, text |-> << >>]
    /\ Terminate(1, "baseline_not_found")
    /\ UNCHANGED <<args, reports, results, outfile, failures,
                   priorFile, readerView, evalVars, paintVars, panelVars>>

\* `if not baseline_path.exists(): raise SystemExit("baseline not found ...")`
BaselineNotFound ==
    /\ pc = "check"
    /\ ~path_exists(baselineFile)
    /\ Terminate(1, "baseline_not_found")
    /\ UNCHANGED <<baselineFile, args, reports, results, outfile, failures,
                   priorFile, readerView, evalVars, paintVars, panelVars>>

\* _load_json(baseline_path) raises: json.load rejects the text
BaselineMalformed ==
    /\ pc = "check"
    /\ path_exists(baselineFile)
    /\ ~json_parses(baselineFile.text)
    /\ Terminate(1, "json_decode_error")
    /\ UNCHANGED <<baselineFile, args, reports, results, outfile, failures,
                   priorFile, readerView, evalVars, paintVars, panelVars>>

\* the baseline loads: every selected scenario is compared, then
\* GuardrailError (exit 1) if there are failures, else `return 0`
CompareAll ==
    /\ pc = "check"
    /\ path_exists(baselineFile)
    /\ json_parses(baselineFile.text)
    /\ LET found == check_failures(json_load_scenarios(baselineFile.text),
                                   args.scenarios, results, 1)
       IN  /\ failures' = found
           /\ IF found # << >> THEN Terminate(1, "regressions")
              ELSE Terminate(0, "passed")
    /\ UNCHANGED <<baselineFile, args, reports, results, outfile, priorFile,
                   readerView, evalVars, paintVars, panelVars>>

\* the process is gone; only the baseline file remains
Exit ==
    /\ pc = "done"
    /\ pc' = "idle"
    /\ args' = [write_baseline |-> FALSE, scenarios |-> << >>]
    /\ reports' = EmptyMap
    /\ results' = EmptyMap
    /\ failures' = << >>
    /\ exitCode' = None
    /\ outcome' = "none"
    /\ priorFile' = NoFile
    /\ readerView' = None
    /\ UNCHANGED <<baselineFile, outfile, evalVars, paintVars, panelVars>>

\* another process reads the baseline path (as _load_json does: open, read
\* to the end) while this invocation persists the baseline
ReaderRead ==
    /\ pc \in {"write", "dump"}
    /\ readerView' = Some(baselineFile)
    /\ UNCHANGED <<baselineFile, pc, args, reports, results, outfile, failures,
                   exitCode, outcome, priorFile, evalVars, paintVars, panelVars>>

----------------------------------------------------------------------------
(* Direct calls of compare_metrics: the arguments are drawn from bounded   *)
(* sets, the call is one step.                                             *)

EvalMetric == "full.avgMs"

\* a metric path_renderer2d declares no tolerance for
EvalOther == "full.minMs"

\* 1.10 and 1.40 are among them: neither is a double, and the sums
\* 1.10 - 1.00 and 1.40 + 1.40 * 0.15 are rounded
EvalBaselines == { 500 * k : k \in -MaxK..MaxK } \cup { 110, 140 }

EvalDeltas == { 10 * d : d \in -MaxD..MaxD } \cup { 21 }

EvalPercents == { None, Some(0), Some(15), Some(0 - 15) }

EvalAbsolutes == { None, Some(0), Some(100), Some(0 - 100) }

EvalDirections ==
    { None, Some(""), Some("increase"), Some("decrease"), Some("sideways") }

\* the values of baseline["tolerances"].get(metric_name): None, or an object
EvalTolInfos ==
    { None } \cup
    { Some(Tolerance(d, p, a)) :
        d \in EvalDirections, p \in EvalPercents, a \in EvalAbsolutes }

\* a map holding `key` when the optional value is present
OptMap(key, opt) == IF opt = None THEN EmptyMap ELSE key :> opt[1]

EvalInputs ==
    { [ baseline |->
          [ metrics |-> (EvalMetric :> b) @@ OptMap(EvalOther, ob),
            tolerances |-> OptMap(EvalMetric, ti),
            keys |-> IF ob = None THEN << EvalMetric >>
                     ELSE IF first THEN << EvalOther, EvalMetric >>
                     ELSE << EvalMetric, EvalOther >> ],
        scenario |-> "path_renderer2d",
        result |->
          [ metrics |-> OptMap(EvalMetric, IF fd = None THEN None ELSE Some(b + fd[1]))
                        @@ OptMap(EvalOther, of) ] ] :
        b \in EvalBaselines,
        fd \in { None } \cup { Some(d) : d \in EvalDeltas },
        ti \in EvalTolInfos,
        ob \in { None, Some(4000) },
        of \in { None, Some(4000) },
        first \in BOOLEAN }

MainIdle ==
    /\ baselineFile = NoFile
    /\ pc = "idle"
    /\ args = [write_baseline |-> FALSE, scenarios |-> << >>]
    /\ reports = EmptyMap
    /\ results = EmptyMap
    /\ outfile = << >>
    /\ failures = << >>
    /\ exitCode = None
    /\ outcome = "none"
    /\ priorFile = NoFile
    /\ readerView = None

EvalInit ==
    /\ MainIdle
    /\ PaintIdle
    /\ evIn \in EvalInputs
    /\ evOut = None

\* problems = compare_metrics(baseline, scenario, result)
Evaluate ==
    /\ evOut = None
    /\ evOut' = Some(compare_metrics(evIn.baseline, scenario_map(evIn.scenario),
                                     evIn.result))
    /\ UNCHANGED <<evIn, mainVars, paintVars, panelVars>>

EvalNext == Evaluate

SpecEval == EvalInit /\ [][EvalNext]_vars

----------------------------------------------------------------------------
(* The baseline file is checked in and edited by hand between invocations. *)

\* tolerance objects an operator may write into the baseline document: an
\* unknown direction, and one with no direction, percent or absolute
OperatorTolInfos ==
    { Tolerance(Some("sideways"), None, None), Tolerance(None, None, None) }

\* the scenarios whose stored tolerances are edited by hand
HandEdited == { "path_renderer2d" }

\* the file's text with one member of "scenarios" replaced
WithEntry(text, name, entry) ==
    [ i \in 1..Len(text) |->
        IF text[i].t = "scenario" /\ text[i].name = name
        THEN Token("scenario", name, entry) ELSE text[i] ]

OperatorDelete ==
    /\ pc = "idle"
    /\ baselineFile.exists
    /\ baselineFile' = NoFile
    /\ UNCHANGED <<pc, args, reports, results, outfile, failures, exitCode,
                   outcome, priorFile, readerView, evalVars, paintVars, panelVars>>

\* the file is left with text that is no JSON document
OperatorCorrupt ==
    /\ pc = "idle"
    /\ baselineFile.exists
    /\ json_parses(baselineFile.text)
    /\ baselineFile' = [exists |-> TRUE, text |-> << Token("garbage", "", NoEntry) >>]
    /\ UNCHANGED <<pc, args, reports, results, outfile, failures, exitCode,
                   outcome, priorFile, readerView, evalVars, paintVars, panelVars>>

\* a metric the scenario declares no tolerance for is added to "metrics",
\* as its first or as its last member
OperatorAddMetric ==
    /\ pc = "idle"
    /\ baselineFile.exists
    /\ json_parses(baselineFile.text)
    /\ LET stored == json_load_scenarios(baselineFile.text)
       IN  \E name \in DOMAIN stored :
             \E metric \in ProducerMetrics(name) \
                             ( DOMAIN scenario_map(name).tolerances
                               \cup DOMAIN stored[name].metrics ) :
               \E value \in ProducerValues(metric), first \in BOOLEAN :
                 baselineFile' =
                   [ baselineFile EXCEPT !.text =
                       WithEntry(@, name,
                           [ scenario_object(@, name) EXCEPT
                               !.metrics = @ @@ (metric :> NumberLit(value)),
                               !.keys = IF first THEN << metric >> \o @
                                        ELSE @ \o << metric >> ]) ]
    /\ UNCHANGED <<pc, args, reports, results, outfile, failures, exitCode,
                   outcome, priorFile, readerView, evalVars, paintVars, panelVars>>

\* a stored tolerance written by the tool is replaced by hand
OperatorSetTolerance ==
    /\ pc = "idle"
    /\ baselineFile.exists
    /\ json_parses(baselineFile.text)
    /\ LET stored == json_load_scenarios(baselineFile.text)
       IN  \E name \in DOMAIN stored \cap HandEdited :
             \E metric \in ProducerMetrics(name) \cap DOMAIN stored[name].tolerances :
               \E tol_info \in OperatorTolInfos :
                 /\ stored[name].tolerances[metric]
                      = StoredTolerances(scenario_map(name))[metric]
                 /\ baselineFile' =
                      [ baselineFile EXCEPT !.text =
                          WithEntry(@, name,
                              [ scenario_object(@, name) EXCEPT
                                  !.tolerances[metric] = dump_tolerance(tol_info) ]) ]
    /\ UNCHANGED <<pc, args, reports, results, outfile, failures, exitCode,
                   outcome, priorFile, readerView, evalVars, paintVars, panelVars>>

\* a stored tolerance is removed by hand
OperatorDropTolerance ==
    /\ pc = "idle"
    /\ baselineFile.exists
    /\ json_parses(baselineFile.text)
    /\ LET stored == json_load_scenarios(baselineFile.text)
       IN  \E name \in DOMAIN stored \cap HandEdited :
             \E metric \in ProducerMetrics(name) \cap DOMAIN stored[name].tolerances :
               /\ stored[name].tolerances[metric]
                    = StoredTolerances(scenario_map(name))[metric]
               /\ baselineFile' =
                    [ baselineFile EXCEPT !.text =
                        WithEntry(@, name,
                            [ scenario_object(@, name) EXCEPT
                                !.tolerances =
                                    [ k \in DOMAIN @ \ {metric} |-> @[k] ] ]) ]
    /\ UNCHANGED <<pc, args, reports, results, outfile, failures, exitCode,
                   outcome, priorFile, readerView, evalVars, paintVars, panelVars>>

----------------------------------------------------------------------------
(* The specifications.                                                     *)

EvalUnused ==
    [ baseline |-> NoEntry, scenario |-> "path_renderer2d",
      result |-> [metrics |-> EmptyMap] ]

Init ==
    /\ MainIdle
    /\ PaintIdle
    /\ evIn = EvalUnused
    /\ evOut = None

Next ==
    \/ Launch
    \/ NothingToDo
    \/ ConfigureAndBuild
    \/ RunScenario
    \/ DumpOpen
    \/ DumpFlush
    \/ DumpClose
    \/ BaselineNotFound
    \/ BaselineMalformed
    \/ CompareAll
    \/ Exit
    \/ ReaderRead
    \/ OperatorDelete
    \/ OperatorCorrupt
    \/ OperatorAddMetric
    \/ OperatorSetTolerance
    \/ OperatorDropTolerance

Spec == Init /\ [][Next]_vars

\* tolerances a scenario may declare for a metric: percent or absolute
\* absent, both absent, a percent of 0
RoundTripTolerances ==
    { Tolerance("increase", None, Some(150)),
      Tolerance("decrease", Some(15), None),
      Tolerance("increase", None, None),
      Tolerance("decrease", Some(0), Some(150)) }

\* SCENARIOS lists a caller may assign: path_renderer2d with a tolerance
\* table over some of the metrics its producer reports
RoundTripRegistries ==
    { << [name |-> "path_renderer2d", tolerances |-> table] >> :
        table \in UNION { [tracked -> RoundTripTolerances] :
                            tracked \in SUBSET { "full.avgMs", "full.minMs" } } }

\* main() is called, one invocation after another, in a module whose
\* SCENARIOS has been assigned
RoundTripInit ==
    /\ MainIdle
    /\ PaintIdle
    /\ evIn \in { [SCENARIOS |-> registry] : registry \in RoundTripRegistries }
    /\ evOut = None

SpecRoundTrip == RoundTripInit /\ [][Next]_vars

----------------------------------------------------------------------------
(* Properties of the tolerance evaluation, checked under SpecEval.         *)

EvCalled == evOut # None

\* compare_metrics reported the metric as failing
EvFailed(metric) ==
    \E i \in 1..Len(evOut[1]) : evOut[1][i].metric = metric

\* the call evaluates EvalMetric against the tolerance stored with the
\* baseline, whose direction is `direction`
EvCase(direction) ==
    /\ EvCalled
    /\ EvalMetric \in DOMAIN evIn.result.metrics
    /\ EvalMetric \in DOMAIN evIn.baseline.tolerances
    /\ evIn.baseline.tolerances[EvalMetric].direction = Some(direction)

EvBaseline == evIn.baseline.metrics[EvalMetric]

EvFresh == evIn.result.metrics[EvalMetric]

EvPercent == evIn.baseline.tolerances[EvalMetric].percent

EvAbsolute == evIn.baseline.tolerances[EvalMetric].absolute

\* an absent percent or floor counts as 0
OrZero(opt) == IF opt = None THEN 0 ELSE opt[1]

\* C1 as stated: with direction increase-bad the metric fails iff
\* fresh > baseline + max(baseline * percent / 100, absoluteFloor), an absent
\* percent or floor counting as 0, so that a fresh value at the limit passes
\* (both sides are scaled by 100).  Baseline 1.40 with 15 percent has the
\* limit 1.61, and a fresh value of 1.61 is reported as regressed.
C1_AsStated ==
    EvCase("increase") =>
        ( EvFailed(EvalMetric) <=>
            100 * EvFresh > 100 * EvBaseline
                + Max(EvBaseline * OrZero(EvPercent), 100 * OrZero(EvAbsolute)) )

\* C2 as stated: with direction decrease-bad the metric fails iff
\* fresh < baseline - max(|baseline| * percent / 100, absoluteFloor), an
\* absent percent or floor counting as 0.  Baseline 1.10 with a floor of
\* 1.00 has the limit 0.10, and a fresh value of 0.10 is reported as dropped.
C2_AsStated ==
    EvCase("decrease") =>
        ( EvFailed(EvalMetric) <=>
            100 * EvFresh < 100 * EvBaseline
                - Max(Abs(EvBaseline) * OrZero(EvPercent), 100 * OrZero(EvAbsolute)) )

\* C3: a tolerance with neither percent nor absolute floor fails the metric
\* for every deviation in the bad direction, however small, and passes it
\* for fresh = baseline and for every deviation in the good direction.
C3_NoAllowance ==
    /\ ( EvCase("increase") /\ EvPercent = None /\ EvAbsolute = None )
         => ( EvFailed(EvalMetric) <=> EvFresh > EvBaseline )
    /\ ( EvCase("decrease") /\ EvPercent = None /\ EvAbsolute = None )
         => ( EvFailed(EvalMetric) <=> EvFresh < EvBaseline )

\* the smallest deviation of the model, 0.10 below a baseline of 5.00, fails
\* a decrease-bad metric that has neither percent nor floor
C3_Witness ==
    /\ EvCase("decrease") /\ EvPercent = None /\ EvAbsolute = None
    /\ EvBaseline = 500 /\ EvFresh = 490
    /\ EvFailed(EvalMetric)

----------------------------------------------------------------------------
(* What the specification of the guardrail says of one baseline metric,    *)
(* written from its definition of a failure and not from the loop of       *)
(* compare_metrics; only the comparison with the limit is MetricVerdict's. *)

\* the tolerance in effect for a metric: the one stored with the baseline
\* (a missing or empty direction reads as increase), else the scenario's
TolInEffect(entry, scenario, metric) ==
    IF metric \in DOMAIN entry.tolerances
    THEN LET info == entry.tolerances[metric]
         IN  [ direction |-> IF info.direction \in { None, Some("") }
                             THEN "increase" ELSE info.direction[1],
               percent |-> info.percent,
               absolute |-> info.absolute ]
    ELSE scenario.tolerances[metric]

\* the baseline metric fails against the fresh metric map: it is missing,
\* has no tolerance anywhere, has an unknown direction, or is beyond the
\* limit of the tolerance in effect
SpecFails(entry, scenario, fresh, metric) ==
    \/ metric \notin DOMAIN fresh
    \/ ( metric \notin DOMAIN entry.tolerances
         /\ metric \notin DOMAIN scenario.tolerances )
    \/ LET t == TolInEffect(entry, scenario, metric)
       IN  \/ t.direction \notin { "increase", "decrease" }
           \/ MetricVerdict(entry.metrics[metric], fresh[metric], t) # "ok"

\* C4: every metric of the stored baseline that the fresh metric map lacks
\* is reported as a missing metric, and every other baseline metric of the
\* scenario is still evaluated: it is reported iff it fails.
C4_MissingMetric ==
    EvCalled =>
        \A metric \in DOMAIN evIn.baseline.metrics :
            IF metric \notin DOMAIN evIn.result.metrics
            THEN \E i \in 1..Len(evOut[1]) :
                    evOut[1][i] = Problem(evIn.scenario, metric, "missing")
            ELSE EvFailed(metric) <=>
                    SpecFails(evIn.baseline, scenario_map(evIn.scenario),
                              evIn.result.metrics, metric)

\* the first baseline metric is missing from the fresh run and the metric
\* after it is evaluated all the same: it passes the fresh map but has no
\* tolerance, and both are reported
C4_Witness ==
    /\ EvCalled
    /\ EvalMetric \notin DOMAIN evIn.result.metrics
    /\ EvalOther \in DOMAIN evIn.baseline.metrics
    /\ EvalOther \in DOMAIN evIn.result.metrics
    /\ evOut[1] = << Problem(evIn.scenario, EvalMetric, "missing"),
                     Problem(evIn.scenario, EvalOther, "unconfigured") >>

----------------------------------------------------------------------------
(* Properties of whole invocations, checked under Spec.                    *)

Selected == Range(args.scenarios)

CheckDone == pc = "done" /\ ~args.write_baseline

WriteDone == pc = "done" /\ args.write_baseline

\* the invocation got as far as comparing the run with the baseline
Compared == CheckDone /\ outcome \in { "regressions", "passed" }

\* the baseline file the invocation found can be loaded
BaselineLoads == priorFile.exists /\ json_parses(priorFile.text)

\* the scenarios of the baseline document the invocation found
Stored == json_load_scenarios(priorFile.text)

\* the build succeeded and every selected scenario's producer was launched
\* and exited 0
ProducersSucceeded ==
    \A name \in Selected : name \in DOMAIN reports /\ reports[name].returncode = 0

\* every selected scenario's producer was launched and left a report that
\* _load_json loads
ReportsLoaded ==
    \A name \in Selected : name \in DOMAIN reports /\ reports[name].report = "valid"

\* the metrics of a scenario's fresh run that the scenario tracks
Fresh(name) ==
    IF name \in DOMAIN reports
    THEN [ metric \in DOMAIN reports[name].metrics
                      \cap DOMAIN scenario_map(name).tolerances |->
             reports[name].metrics[metric] ]
    ELSE EmptyMap

AllPresent == \A name \in Selected : BaselineLoads /\ name \in DOMAIN Stored

NoMetricFails ==
    \A name \in Selected :
        \A metric \in DOMAIN Stored[name].metrics :
            ~SpecFails(Stored[name], scenario_map(name), Fresh(name), metric)

\* the entries of `failures` about one metric of one scenario
FailuresAbout(name, metric) ==
    { i \in 1..Len(failures) :
        failures[i].scenario = name /\ failures[i].metric = metric }

\* C5 as stated: in a check run, a baseline metric that the producer emits
\* and that has a tolerance neither in the stored baseline nor in the
\* scenario's defaults is reported as `no tolerance configured`, and not as
\* a missing metric.
C5_AsStated ==
    Compared =>
        \A name \in Selected \cap DOMAIN Stored :
            \A metric \in DOMAIN Stored[name].metrics :
                ( /\ metric \in DOMAIN reports[name].metrics
                  /\ metric \notin DOMAIN Stored[name].tolerances
                  /\ metric \notin DOMAIN scenario_map(name).tolerances )
                => /\ \E i \in FailuresAbout(name, metric) :
                        failures[i].kind = "unconfigured"
                   /\ \A i \in FailuresAbout(name, metric) :
                        failures[i].kind # "missing"

\* C6: the failures main reports hold exactly one entry for each baseline
\* metric of each selected scenario that fails, none for a metric that
\* passes, one for each selected scenario the baseline lacks, and nothing
\* else; the failures of all selected scenarios are reported together.
C6_AllFailuresCollected ==
    Compared =>
        /\ \A name \in Selected \cap DOMAIN Stored :
             \A metric \in DOMAIN Stored[name].metrics :
                Cardinality(FailuresAbout(name, metric)) =
                    IF SpecFails(Stored[name], scenario_map(name), results[name], metric)
                    THEN 1 ELSE 0
        /\ \A name \in Selected \ DOMAIN Stored :
             \E i \in 1..Len(failures) :
                /\ failures[i] = Problem(name, "", "scenario_missing")
                /\ FailuresAbout(name, "") = { i }
        /\ \A i \in 1..Len(failures) :
             /\ failures[i].scenario \in Selected
             /\ failures[i].scenario \in DOMAIN Stored
                  => failures[i].metric \in DOMAIN Stored[failures[i].scenario].metrics
             /\ failures[i].scenario \notin DOMAIN Stored => failures[i].metric = ""

\* one run reports two failing metrics of path_renderer2d and a failing
\* metric of pixel_noise_software
C6_Witness ==
    /\ Compared
    /\ \E i \in 1..Len(failures) :
         failures[i] = Problem("path_renderer2d", "full.avgMs", "regressed")
    /\ \E i \in 1..Len(failures) :
         failures[i] = Problem("path_renderer2d", "full.minMs", "missing")
    /\ \E i \in 1..Len(failures) :
         failures[i] = Problem("pixel_noise_software", "summary.averageFps", "dropped")

MissingOrMalformedEnd ==
    /\ ~priorFile.exists
         => exitCode = Some(1) /\ outcome = "baseline_not_found"
    /\ ( priorFile.exists /\ ~json_parses(priorFile.text) )
         => exitCode = Some(1) /\ outcome = "json_decode_error"
    /\ ~BaselineLoads => failures = << >> /\ outcome # "passed"

\* C9 as stated: a check run whose baseline file does not exist ends with a
\* non-zero exit and the message to run --write-baseline first; one whose
\* baseline file does not parse ends with a non-zero exit through a parse
\* error; neither reports a comparison or a pass.
C9_AsStated == CheckDone => MissingOrMalformedEnd

\* C10: whatever a concurrent reader reads from the baseline path while a
\* --write-baseline run persists the baseline is the complete previous file
\* or the complete new document.
C10_AsStated ==
    readerView # None =>
        readerView[1] \in { priorFile,
                            [exists |-> TRUE, text |-> json_dump(BaselinePayload)] }

----------------------------------------------------------------------------
(* The stored baseline read back, and the producer's launches.             *)

\* the tolerance table a check run gets from a stored scenario entry: for
\* each metric with a stored tolerance object, the Tolerance built from it
LoadedTolerances(entry) ==
    [ metric \in DOMAIN entry.tolerances |->
        ToleranceFromInfo(entry.tolerances[metric]) ]

\* C18 as stated: a producer that exits non-zero is started a second time.
C18_AsStated ==
    \A name \in DOMAIN reports :
        reports[name].returncode # 0 => reports[name].launches = 2

\* C11: when a --write-baseline run has ended with the baseline stored, the
\* document at the baseline path is one _load_json loads, and what a check
\* run loads from it has, for every scenario the run selected, the metric
\* names and values the run kept and, for every metric of the scenario's
\* tolerance table, the direction, percent and absolute that were written,
\* an absent percent or absolute staying absent.
C11_RoundTrip ==
    ( WriteDone /\ outcome = "baseline_written" ) =>
        /\ path_exists(baselineFile) /\ json_parses(baselineFile.text)
        /\ LET loaded == json_load_scenarios(baselineFile.text)
           IN  /\ DOMAIN loaded = Selected
               /\ \A name \in Selected :
                    /\ DOMAIN loaded[name].metrics = DOMAIN results[name]
                    /\ \A metric \in DOMAIN results[name] :
                         loaded[name].metrics[metric] = results[name][metric]
                    /\ LoadedTolerances(loaded[name])
                         = scenario_map(name).tolerances

\* a --write-baseline run has stored 1.10 and 40.0 under a table with a
\* tolerance without percent and a tolerance without absolute, and both
\* are loaded as absent
C11_Witness ==
    /\ WriteDone /\ outcome = "baseline_written"
    /\ scenario_map("path_renderer2d").tolerances =
         ( "full.avgMs" :> Tolerance("increase", None, Some(150)) ) @@
         ( "full.minMs" :> Tolerance("decrease", Some(15), None) )
    /\ results["path_renderer2d"] = ( "full.avgMs" :> 110 ) @@ ( "full.minMs" :> 4000 )
    /\ LET loaded == json_load_scenarios(baselineFile.text)["path_renderer2d"]
       IN  /\ loaded.tolerances["full.avgMs"].percent = None
           /\ loaded.tolerances["full.minMs"].absolute = None
           /\ loaded.metrics["full.avgMs"] = 110

----------------------------------------------------------------------------
(* What an invocation does to the baseline file, checked under Spec.       *)

\* the step is taken by the running invocation and changes the baseline file
WritesBaseline == pc # "idle" /\ baselineFile' # baselineFile

\* C26: an invocation writes the baseline file in one _dump_json call at
\* most, only with --write-baseline and only after every selected
\* scenario's producer has completed; a check-mode invocation leaves the
\* file as it found it, however it ends.
C26_WrittenOnce ==
    [][ /\ WritesBaseline
          => /\ args.write_baseline
             /\ pc \in { "write", "dump" }
             /\ ProducersSucceeded
             /\ DOMAIN results = Selected
        /\ ( pc' = "write" /\ pc # "write" ) => pc = "run"
        /\ pc = "dump" => pc' \in { "dump", "done" }
        /\ ( pc # "idle" /\ ~args.write_baseline ) => baselineFile = priorFile
      ]_vars

\* a --write-baseline run over both scenarios has replaced a stored baseline
C26_Witness ==
    /\ WriteDone /\ outcome = "baseline_written"
    /\ Len(args.scenarios) = 2
    /\ priorFile.exists
    /\ baselineFile # priorFile

\* C27: after a --write-baseline run the scenarios map of the baseline
\* document holds exactly the selected scenarios, whatever was stored before;
\* a check run reports every selected scenario the document lacks as missing
\* from the baseline.
C27_WholeDocumentReplaced ==
    /\ ( WriteDone /\ outcome = "baseline_written" )
         => /\ json_parses(baselineFile.text)
            /\ DOMAIN json_load_scenarios(baselineFile.text) = Selected
    /\ Compared
         => \A name \in Selected \ DOMAIN Stored :
              \E i \in 1..Len(failures) :
                failures[i] = Problem(name, "", "scenario_missing")

\* the baseline held both scenarios; a --write-baseline run of one of them
\* has left only that one
C27_Witness ==
    /\ WriteDone /\ outcome = "baseline_written"
    /\ BaselineLoads
    /\ DOMAIN Stored = { "path_renderer2d", "pixel_noise_software" }
    /\ args.scenarios = << "pixel_noise_software" >>
    /\ DOMAIN json_load_scenarios(baselineFile.text) = { "pixel_noise_software" }

\* the metrics a scenario's fresh run emits and the scenario declares a
\* tolerance for, but the stored baseline has no value for
FreshOnly(name) == DOMAIN Fresh(name) \ DOMAIN Stored[name].metrics

\* C28: a metric the fresh run emits and the scenario declares a tolerance
\* for, but that the stored baseline's metric map lacks, produces no
\* failure, whatever its value.
C28_BaselineMetricsOnly ==
    Compared =>
        \A name \in Selected \cap DOMAIN Stored :
            \A metric \in FreshOnly(name) : FailuresAbout(name, metric) = { }

\* a check run passed although the fresh run reported a tracked metric the
\* baseline has no value for
C28_Witness ==
    /\ Compared /\ outcome = "passed"
    /\ "path_renderer2d" \in Selected \cap DOMAIN Stored
    /\ "full.avgMs" \in FreshOnly("path_renderer2d")

----------------------------------------------------------------------------
(* _flatten, called directly on bounded JSON documents.                    *)
(*                                                                         *)
(* A JSON object is the sequence of its members in document order, each a  *)
(* record [key, value]; a value is a record with a `kind`: "int", "float", *)
(* "bool", "str", or "dict" with the members under `items`.  An int leaf   *)
(* carries the integer under `v`, a float leaf its value in hundredths.    *)

JsonInt(n) == [kind |-> "int", v |-> n]

JsonFloat(h) == [kind |-> "float", v |-> h]

JsonBool(b) == [kind |-> "bool", b |-> b]

JsonStr(t) == [kind |-> "str", s |-> t]

JsonDict(items) == [kind |-> "dict", items |-> items]

Member(key, value) == [key |-> key, value |-> value]

\* isinstance(value, (int, float)) with bool outside int
is_number_strict(value) == value.kind \in { "int", "float" }

\* isinstance(value, (int, float)): bool is a subclass of int
is_number(value) == value.kind \in { "int", "float", "bool" }

\* float(value), in hundredths
to_float(value) ==
    CASE value.kind = "int" -> 100 * value.v
      [] value.kind = "float" -> value.v
      [] value.kind = "bool" -> IF value.b THEN 100 ELSE 0

\* ".".join(parts)
RECURSIVE dot_join(_)
dot_join(parts) ==
    IF Len(parts) = 0 THEN ""
    ELSE IF Len(parts) = 1 THEN parts[1]
    ELSE parts[1] \o "." \o dot_join(Tail(parts))

\* dest[key] = value
SetItem(dest, key, value) ==
    [ k \in DOMAIN dest \cup { key } |-> IF k = key THEN value ELSE dest[k] ]

\* _flatten(prefix, payload, dest): dest after the members payload[i..]
RECURSIVE flatten(_, _, _, _)
flatten(prefix, payload, dest, i) ==
    IF i > Len(payload) THEN dest
    ELSE LET key == payload[i].key
             value == payload[i].value
             after ==
               IF value.kind = "dict"
               THEN flatten(Append(prefix, key), value.items, dest, 1)
               ELSE IF is_number(value)
               THEN SetItem(dest, dot_join(Append(prefix, key)), to_float(value))
               ELSE dest
         IN  flatten(prefix, payload, after, i + 1)

FlattenKeys == { "avgMs", "ok" }

FlattenLeaves == { JsonInt(3), JsonFloat(250), JsonBool(TRUE), JsonStr("x") }

\* the objects with members named by FlattenKeys, each key at most once,
\* and values drawn from `values`
ObjectsOver(values) ==
    { << >> }
    \cup { << Member(k, v) >> : k \in FlattenKeys, v \in values }
    \cup { obj \in { << Member(k1, v1), Member(k2, v2) >> :
                         k1 \in FlattenKeys, k2 \in FlattenKeys,
                         v1 \in values, v2 \in values } :
             obj[1].key # obj[2].key }

\* documents nested one level deep
FlattenDocs ==
    ObjectsOver(FlattenLeaves
                \cup { JsonDict(items) : items \in ObjectsOver(FlattenLeaves) })

FlattenInit ==
    /\ MainIdle
    /\ PaintIdle
    /\ evIn \in { [prefix |-> << >>, payload |-> doc] : doc \in FlattenDocs }
    /\ evOut = None

\* flat = {}; _flatten([], payload, flat)
Flatten ==
    /\ evOut = None
    /\ evOut' = Some(flatten(evIn.prefix, evIn.payload, EmptyMap, 1))
    /\ UNCHANGED <<evIn, mainVars, paintVars, panelVars>>

FlattenNext == Flatten

SpecFlatten == FlattenInit /\ [][FlattenNext]_vars

\* the number-valued leaves of a document, each with its joined key and its
\* value
RECURSIVE NumberLeaves(_, _)
NumberLeaves(prefix, payload) ==
    UNION { LET key == payload[i].key
                value == payload[i].value
            IN  IF value.kind = "dict"
                THEN NumberLeaves(Append(prefix, key), value.items)
                ELSE IF is_number_strict(value)
                THEN { << dot_join(Append(prefix, key)), to_float(value) >> }
                ELSE { } :
            i \in 1..Len(payload) }

\* C20 as stated: the flat map holds exactly one entry per number-valued
\* leaf, under the leaf's keys joined with '.', with the leaf's value;
\* string and boolean leaves contribute no entry.
C20_AsStated ==
    evOut # None =>
        { << k, evOut[1][k] >> : k \in DOMAIN evOut[1] }
            = NumberLeaves(evIn.prefix, evIn.payload)

----------------------------------------------------------------------------
(* The documents and files of the paint_example guardrails.                *)
(*                                                                         *)
(* The manifest file is [exists, doc]: doc is <<>> when json.load rejects  *)
(* the text, else <<[manifest_revision, captures]>> with manifest_revision *)
(* optional and captures a map from tag to entry.  An entry's width,       *)
(* height and sha256 are optional.  A PNG file is [exists, valid, width,   *)
(* height, content]: `valid` says the first 24 bytes are a PNG signature   *)
(* and an IHDR chunk, `content` names the bytes of the file.               *)

\* manifest revisions run from 1 to MaxRevision
MaxRevision == 2

\* the capture tags of the manifest, in the order of sorted()
TagOrder == << "1280x800", "paint_720" >>

Tags == Range(TagOrder)

Png(width, height, content) ==
    [exists |-> TRUE, valid |-> TRUE, width |-> width, height |-> height,
     content |-> content]

\* a file that is no PNG
NotPng == [exists |-> TRUE, valid |-> FALSE, width |-> 0, height |-> 0,
           content |-> "text"]

\* a digest that is the same for every file
sha256_ignoring_content(file) == "sha256:"

\* hashlib.sha256 over the file's bytes, hexdigest(): one digest per content
compute_sha256(file) == "sha256:" \o file.content

\* read_png_dimensions raises ValueError
png_invalid(file) == ~file.valid

\* read_png_dimensions: the big-endian integers at bytes 16..24
read_png_dimensions(file) == << file.width, file.height >>

Entry(path, width, height, sha256, revision) ==
    [path |-> path, width |-> width, height |-> height, sha256 |-> sha256,
     revision |-> revision]

Manifest(manifest_revision, captures) ==
    [manifest_revision |-> manifest_revision, captures |-> captures]

\* a line of output: what it is about and the values it names
Msg(kind, tag, ints, strs) ==
    [kind |-> kind, tag |-> tag, ints |-> ints, strs |-> strs]

\* the text of the expected-revision file after strip()
MarkerEmpty == [kind |-> "empty", value |-> 0]

MarkerInt(n) == [kind |-> "int", value |-> n]

MarkerGarbage == [kind |-> "garbage", value |-> 0]

\* int(text, 10) raises ValueError
load_expected_revision_raises(file) ==
    file.exists /\ file.text.kind = "garbage"

\* load_expected_revision returning None whatever the file holds
load_expected_revision_absent(file) == None

\* load_expected_revision: None without a file or with an empty one
load_expected_revision(file) ==
    IF ~file.exists \/ file.text.kind = "empty" THEN None
    ELSE Some(file.text.value)

\* the lines of the palette log: `## Revision N` headers and other text
Header(n) == [header |-> TRUE, revision |-> n]

Prose == [header |-> FALSE, revision |-> 0]

\* the loop of ensure_palette_log_entry finding its entry in any file
palette_log_found_always(file, revision) == TRUE

\* the loop of ensure_palette_log_entry sets `found`
palette_log_found(file, revision) ==
    \E i \in 1..Len(file.lines) :
        file.lines[i].header /\ file.lines[i].revision = revision

\* the metrics JSON pathspace_screenshot_cli leaves next to a screenshot
Metrics(status) == [exists |-> TRUE, status |-> status]

NoMetrics == [exists |-> FALSE, status |-> ""]

----------------------------------------------------------------------------
(* paint_example_monitor.                                                  *)

\* truth value of manifest_entry.get("sha256")
sha_is_truthy(sha256) == sha256 # None /\ sha256[1] # ""

\* gather_capture(tag, manifest_entry, ...): the exception it raises, or
\* the summary it returns
gather_capture(tag, manifest_entry, art) ==
    LET size == read_png_dimensions(art.screenshot)
        screenshot_sha == compute_sha256(art.screenshot)
        Raise(msg) == [ok |-> FALSE, error |-> msg]
    IN  IF ~art.screenshot.exists
        THEN Raise(Msg("missing_screenshot", tag, << >>, << >>))
        ELSE IF ~art.metrics.exists
        THEN Raise(Msg("missing_metrics", tag, << >>, << >>))
        ELSE IF png_invalid(art.screenshot)
        THEN Raise(Msg("not_a_png", tag, << >>, << >>))
        ELSE IF manifest_entry.width # Some(size[1])
                \/ manifest_entry.height # Some(size[2])
        THEN Raise(Msg("size_mismatch", tag,
                       size \o manifest_entry.width \o manifest_entry.height,
                       << >>))
        ELSE IF art.metrics.status \notin { "match", "captured" }
        THEN Raise(Msg("unexpected_status", tag, << >>, << art.metrics.status >>))
        ELSE IF sha_is_truthy(manifest_entry.sha256)
                /\ screenshot_sha # manifest_entry.sha256[1]
        THEN Raise(Msg("sha_mismatch", tag, << >>,
                       << screenshot_sha >> \o manifest_entry.sha256))
        ELSE [ ok |-> TRUE,
               summary |->
                 [ tag |-> tag,
                   width |-> manifest_entry.width,
                   height |-> manifest_entry.height,
                   baseline_sha256 |-> manifest_entry.sha256,
                   screenshot_sha256 |-> screenshot_sha,
                   status |-> art.metrics.status,
                   sha256_match |-> Some(screenshot_sha) = manifest_entry.sha256 ] ]

\* print(..., file=sys.stderr); return 1
MonFail(msg) ==
    mon' = [mon EXCEPT !.pc = "done", !.exit = Some(1),
                       !.stderr = Append(@, msg)]

\* what a monitor step leaves alone, the report file apart
monFrame == <<mainVars, evalVars, manifestFile, markerFile, changelogFile,
              baselinePng, artifacts, paintBinary, cap, shot, edited,
              manifestView, panelVars>>

\* the values of --tags: absent, one tag, both in the other order, a tag
\* the manifest does not have
MonitorTagArgs ==
    { None, Some(<< "paint_720" >>), Some(<< "paint_720", "1280x800" >>),
      Some(<< "retina" >>) }

\* a new invocation: parse_args
MonitorLaunch ==
    /\ mon.pc = "idle" /\ cap.pc = "idle" /\ shot.pc = "idle"
    /\ \E tags \in MonitorTagArgs :
         mon' = [MonIdle EXCEPT !.pc = "manifest", !.tags = tags]
    /\ UNCHANGED <<monFrame, reportFile>>

\* load_manifest and manifest.get("manifest_revision")
MonitorLoadManifest ==
    /\ mon.pc = "manifest"
    /\ IF ~manifestFile.exists
       THEN MonFail(Msg("manifest_not_found", "", << >>, << >>))
       ELSE IF manifestFile.doc = None
       THEN MonFail(Msg("json_decode_error", "", << >>, << >>))
       ELSE IF manifestFile.doc[1].manifest_revision = None
       THEN MonFail(Msg("manifest_missing_revision", "", << >>, << >>))
       ELSE mon' = [mon EXCEPT !.pc = "revision",
                               !.revision = manifestFile.doc[1].manifest_revision]
    /\ UNCHANGED <<monFrame, reportFile>>

\* load_expected_revision and the comparison with manifest_revision
MonitorExpectedRevision ==
    /\ mon.pc = "revision"
    /\ LET expected_revision == load_expected_revision(markerFile)
       IN  IF load_expected_revision_raises(markerFile)
           THEN MonFail(Msg("marker_unparsable", "", << >>, << >>))
           ELSE IF expected_revision # None /\ expected_revision # mon.revision
           THEN MonFail(Msg("revision_mismatch", "",
                            mon.revision \o expected_revision, << >>))
           ELSE mon' = [mon EXCEPT !.pc = "palette",
                                   !.expected = expected_revision]
    /\ UNCHANGED <<monFrame, reportFile>>

\* ensure_palette_log_entry(palette_log_path, manifest_revision)
MonitorPaletteLog ==
    /\ mon.pc = "palette"
    /\ IF ~changelogFile.exists
       THEN MonFail(Msg("palette_log_not_found", "", << >>, << >>))
       ELSE IF ~palette_log_found(changelogFile, mon.revision[1])
       THEN MonFail(Msg("palette_log_lacks_entry", "", mon.revision, << >>))
       ELSE mon' = [mon EXCEPT !.pc = "tags"]
    /\ UNCHANGED <<monFrame, reportFile>>

\* captures, required_tags and missing
MonitorRequiredTags ==
    /\ mon.pc = "tags"
    /\ LET captures == manifestFile.doc[1].captures
           InCaptures(tag) == tag \in DOMAIN captures
           required_tags == IF mon.tags # None /\ mon.tags[1] # << >>
                            THEN mon.tags[1]
                            ELSE SelectSeq(TagOrder, InCaptures)
       IN  IF DOMAIN captures = {}
           THEN MonFail(Msg("no_captures", "", << >>, << >>))
           ELSE IF \E i \in 1..Len(required_tags) : ~InCaptures(required_tags[i])
           THEN MonFail(Msg("unknown_tags", "", << >>, << >>))
           ELSE mon' = [mon EXCEPT !.pc = "gather", !.required = required_tags,
                                   !.i = 1]
    /\ UNCHANGED <<monFrame, reportFile>>

\* one pass of `for tag in required_tags`
MonitorGather ==
    /\ mon.pc = "gather"
    /\ mon.i <= Len(mon.required)
    /\ LET tag == mon.required[mon.i]
           got == gather_capture(tag, manifestFile.doc[1].captures[tag],
                                 artifacts[tag])
       IN  IF ~got.ok THEN MonFail(got.error)
           ELSE mon' = [mon EXCEPT !.report = @ @@ (tag :> got.summary),
                                   !.i = @ + 1]
    /\ UNCHANGED <<monFrame, reportFile>>

\* the report is written; `return 0`
MonitorWriteReport ==
    /\ mon.pc = "gather"
    /\ mon.i > Len(mon.required)
    /\ reportFile' = Some([manifest_revision |-> mon.revision,
                           expected_revision |-> mon.expected,
                           captures |-> mon.report])
    /\ mon' = [mon EXCEPT !.pc = "done", !.exit = Some(0), !.wrote = TRUE]
    /\ UNCHANGED monFrame

\* the process is gone
MonitorExit ==
    /\ mon.pc = "done"
    /\ mon' = MonIdle
    /\ UNCHANGED <<monFrame, reportFile>>

----------------------------------------------------------------------------
(* The checkouts paint_example_monitor is run in.                          *)

\* the size a tag is captured at
TagWidth(tag) == 1280

TagHeight(tag) == IF tag = "1280x800" THEN 800 ELSE 720

\* the path of a tag's baseline PNG
TagPath(tag) ==
    IF tag = "1280x800" THEN "docs/images/paint_example_baseline.png"
    ELSE "docs/images/paint_example_720_baseline.png"

\* the PNG paint_example produces for a tag when nothing has changed
GoodPng(tag) == Png(TagWidth(tag), TagHeight(tag), "pixels")

GoodEntry(tag) ==
    Entry(TagPath(tag), Some(TagWidth(tag)), Some(TagHeight(tag)),
          Some(compute_sha256(GoodPng(tag))), 1)

GoodArtifact(tag) == [screenshot |-> GoodPng(tag), metrics |-> Metrics("match")]

\* manifest entries for a tag: width, height or sha256 absent, another
\* width, sha256 empty
EntryChoices(tag) ==
    { Entry(TagPath(tag), w, h, sha, 1) :
        w \in { Some(TagWidth(tag)), Some(640), None },
        h \in { Some(TagHeight(tag)), None },
        sha \in { Some(compute_sha256(GoodPng(tag))), Some(""), None } }

\* PNG files for a tag: none, no PNG, another size, other pixels
PngChoices(tag) ==
    { NoPng, NotPng }
    \cup { Png(w, h, c) : w \in { TagWidth(tag), 640 },
                          h \in { TagHeight(tag), 480 },
                          c \in { "pixels", "drift" } }

MetricsChoices ==
    { NoMetrics, Metrics("match"), Metrics("captured"), Metrics("mismatch") }

\* a tag's manifest entry and artifacts, one of the three off the good case
TagCases(tag) ==
    { [entry |-> e, art |-> GoodArtifact(tag)] : e \in EntryChoices(tag) }
    \cup { [entry |-> GoodEntry(tag),
            art |-> [screenshot |-> f, metrics |-> Metrics("match")]] :
           f \in PngChoices(tag) }
    \cup { [entry |-> GoodEntry(tag),
            art |-> [screenshot |-> GoodPng(tag), metrics |-> m]] :
           m \in MetricsChoices }

Revisions == 1..MaxRevision

\* the palette log with a header for each revision of a set
ChangelogWith(revs) ==
    LET all == [n \in Revisions |-> Header(n)]
        Kept(line) == line.revision \in revs
    IN  [exists |-> TRUE, lines |-> << Prose >> \o SelectSeq(all, Kept)]

MarkerChoices ==
    { [exists |-> FALSE, text |-> MarkerEmpty],
      [exists |-> TRUE, text |-> MarkerEmpty],
      [exists |-> TRUE, text |-> MarkerGarbage] }
    \cup { [exists |-> TRUE, text |-> MarkerInt(n)] : n \in Revisions }

ChangelogChoices ==
    { [exists |-> FALSE, lines |-> << >>] }
    \cup { ChangelogWith(revs) : revs \in SUBSET Revisions }

GoodCaptures == [tag \in Tags |-> GoodEntry(tag)]

GoodArtifacts == [tag \in Tags |-> GoodArtifact(tag)]

\* checkouts whose artifacts are good and whose manifest, marker and
\* palette log are anything
RevisionWorlds ==
    { [manifest |-> m, marker |-> k, changelog |-> c, artifacts |-> GoodArtifacts] :
        m \in { [exists |-> FALSE, doc |-> None], [exists |-> TRUE, doc |-> None] }
              \cup { [exists |-> TRUE, doc |-> Some(Manifest(r, GoodCaptures))] :
                     r \in { None } \cup { Some(n) : n \in Revisions } },
        k \in MarkerChoices,
        c \in ChangelogChoices }

\* checkouts whose three documents agree on the revision and whose captures
\* and artifacts are anything: no capture, one, or both, each in any case
ArtifactWorlds ==
    { [manifest |->
         [exists |-> TRUE,
          doc |-> Some(Manifest(Some(r), [tag \in DOMAIN cases |-> cases[tag].entry]))],
       marker |-> [exists |-> TRUE, text |-> MarkerInt(r)],
       changelog |-> ChangelogWith(1..r),
       artifacts |-> [tag \in Tags |->
                        IF tag \in DOMAIN cases THEN cases[tag].art
                        ELSE GoodArtifact(tag)]] :
        r \in Revisions,
        cases \in UNION { { f \in [present -> UNION { TagCases(t) : t \in Tags }] :
                            \A t \in present : f[t] \in TagCases(t) } :
                          present \in SUBSET Tags } }

MonitorInit ==
    /\ MainIdle
    /\ evIn = EvalUnused
    /\ evOut = None
    /\ \E world \in RevisionWorlds \cup ArtifactWorlds :
         /\ manifestFile = world.manifest
         /\ markerFile = world.marker
         /\ changelogFile = world.changelog
         /\ artifacts = world.artifacts
    /\ baselinePng = << >>
    /\ paintBinary = FALSE
    /\ reportFile = None
    /\ mon = MonIdle
    /\ cap = CapIdle
    /\ shot = ShotIdle
    /\ edited = NotEdited
    /\ manifestView = None
    /\ sse = SseIdle

MonitorNext ==
    \/ MonitorLaunch
    \/ MonitorLoadManifest
    \/ MonitorExpectedRevision
    \/ MonitorPaletteLog
    \/ MonitorRequiredTags
    \/ MonitorGather
    \/ MonitorWriteReport
    \/ MonitorExit

SpecMonitor == MonitorInit /\ [][MonitorNext]_vars

----------------------------------------------------------------------------
(* Properties of paint_example_monitor, checked under SpecMonitor.         *)

MonDone == mon.pc = "done"

\* the last line the run printed to stderr
MonLastMsg == mon.stderr[Len(mon.stderr)]

\* the manifest loaded and has a manifest_revision
MonHasRevision ==
    /\ manifestFile.exists /\ manifestFile.doc # None
    /\ manifestFile.doc[1].manifest_revision # None

ManifestRevision == manifestFile.doc[1].manifest_revision[1]

\* the screenshot of a tag is what the tag's manifest entry says
ArtifactVerified(tag) ==
    LET entry == manifestFile.doc[1].captures[tag]
        file == artifacts[tag].screenshot
    IN  /\ file.exists /\ file.valid
        /\ entry.width = Some(file.width)
        /\ entry.height = Some(file.height)
        /\ entry.sha256 = Some(compute_sha256(file))

\* C12 as stated: the monitor writes its report and exits 0 only if every
\* required tag's screenshot has the manifest entry's width and height in
\* its PNG header and the manifest entry's sha256 as its SHA-256; no
\* capture is recorded in the report with sha256_match = false.
C12_AsStated ==
    ( MonDone /\ mon.exit = Some(0) ) =>
        /\ mon.wrote
        /\ \A tag \in Range(mon.required) :
             /\ ArtifactVerified(tag)
             /\ reportFile[1].captures[tag].sha256_match

\* C14: a monitor run over a manifest with a manifest_revision ends with
\* exit 1, no report written and a message naming the manifest's revision
\* and the marker's, whenever the marker file holds an integer that is not
\* the manifest's revision; without a marker file the run records no
\* expectation and does not end on the revision check.
C14_RevisionMarker ==
    ( MonDone /\ MonHasRevision ) =>
        /\ ( markerFile.exists /\ markerFile.text.kind = "int"
             /\ markerFile.text.value # ManifestRevision )
           => /\ mon.exit = Some(1) /\ ~mon.wrote
              /\ mon.stderr = << Msg("revision_mismatch", "",
                                     << ManifestRevision, markerFile.text.value >>,
                                     << >>) >>
        /\ ~markerFile.exists
           => /\ mon.expected = None
              /\ \A i \in 1..Len(mon.stderr) :
                   mon.stderr[i].kind \notin { "revision_mismatch",
                                               "marker_unparsable" }

\* manifest revision 2, marker holding 1, palette log and artifacts in
\* order: the run has failed
C14_Witness ==
    /\ MonDone /\ MonHasRevision
    /\ ManifestRevision = 2
    /\ markerFile.exists /\ markerFile.text = MarkerInt(1)
    /\ palette_log_found(changelogFile, 2)
    /\ artifacts = GoodArtifacts
    /\ mon.exit = Some(1)

\* the palette log has a line `## Revision <revision>`
LogHasHeader(revision) ==
    \E i \in DOMAIN changelogFile.lines : changelogFile.lines[i] = Header(revision)

\* the run got as far as ensure_palette_log_entry
PaletteChecked ==
    /\ MonHasRevision
    /\ ~load_expected_revision_raises(markerFile)
    /\ load_expected_revision(markerFile) \in { None, Some(ManifestRevision) }

\* the exit of a run that got to the palette log and found no entry
PaletteLogFatal ==
    ( PaletteChecked
      /\ ( ~changelogFile.exists
           \/ ~LogHasHeader(ManifestRevision) ) )
    => /\ mon.exit = Some(1) /\ ~mon.wrote
       /\ mon.stderr # << >>

\* C15 as stated: the monitor exits 0 only if the palette log has a header
\* `## Revision N` with N the manifest's revision; a missing palette log,
\* or one with no such header, ends the run with exit 1 and a message that
\* names the revision looked for.
C15_AsStated ==
    MonDone =>
        /\ mon.exit = Some(0)
           => /\ changelogFile.exists
              /\ LogHasHeader(ManifestRevision)
        /\ PaletteLogFatal
        /\ ( PaletteChecked
             /\ ( ~changelogFile.exists
                  \/ ~LogHasHeader(ManifestRevision) ) )
           => ManifestRevision \in Range(MonLastMsg.ints)

\* a tag's artifacts do not pass gather_capture
FailsVerification(tag) ==
    ~gather_capture(tag, manifestFile.doc[1].captures[tag], artifacts[tag]).ok

\* C19 as stated: when a run ends, every required tag whose artifacts fail
\* verification is named in the run's failure output.
C19_AsStated ==
    MonDone =>
        \A tag \in Range(mon.required) :
            FailsVerification(tag) =>
                \E i \in 1..Len(mon.stderr) : mon.stderr[i].tag = tag

----------------------------------------------------------------------------
(* paint_example_capture.                                                  *)

\* print(..., file=sys.stderr); return 1, or an exception nothing catches
CapFail(msg) ==
    cap' = [cap EXCEPT !.pc = "done", !.exit = Some(1),
                       !.stderr = Append(@, msg)]

\* what a capture step leaves alone, the manifest, the baseline PNGs and
\* the history apart
capFrame == <<mainVars, evalVars, markerFile, changelogFile, artifacts,
              paintBinary, reportFile, mon, shot, panelVars>>

\* the values of --tags
CaptureTagArgs == { None, Some(<< "paint_720" >>), Some(<< "retina" >>) }

\* the revision written back as it was read
next_manifest_revision_same(manifest) ==
    IF manifest.manifest_revision = None THEN 0
    ELSE manifest.manifest_revision[1]

\* int(manifest.get("manifest_revision", 0)) + 1
next_manifest_revision(manifest) ==
    IF manifest.manifest_revision = None THEN 1
    ELSE manifest.manifest_revision[1] + 1

\* a new invocation: parse_args; the revision counter is kept below
\* MaxRevision
CaptureLaunch ==
    /\ mon.pc = "idle" /\ cap.pc = "idle" /\ shot.pc = "idle"
    /\ ( manifestFile.exists /\ manifestFile.doc # None )
         => next_manifest_revision(manifestFile.doc[1]) <= MaxRevision
    /\ \E tags \in CaptureTagArgs, dry_run \in BOOLEAN :
         cap' = [CapIdle EXCEPT !.pc = "start", !.tags = tags,
                                !.dry_run = dry_run, !.found = manifestFile]
    /\ UNCHANGED <<capFrame, manifestView, manifestFile, baselinePng, edited>>

\* ensure_binary, load_manifest, captures, tags and git_commit, whose
\* RuntimeError nothing catches
CaptureStart ==
    /\ cap.pc = "start"
    /\ IF ~paintBinary
       THEN CapFail(Msg("missing_binary", "", << >>, << >>))
       ELSE IF ~manifestFile.exists
       THEN CapFail(Msg("manifest_not_found", "", << >>, << >>))
       ELSE IF manifestFile.doc = None
       THEN CapFail(Msg("json_decode_error", "", << >>, << >>))
       ELSE LET captures == manifestFile.doc[1].captures
                InCaptures(tag) == tag \in DOMAIN captures
                tags == IF cap.tags # None /\ cap.tags[1] # << >>
                        THEN cap.tags[1]
                        ELSE SelectSeq(TagOrder, InCaptures)
            IN  IF DOMAIN captures = {}
                THEN CapFail(Msg("no_captures", "", << >>, << >>))
                ELSE IF \E i \in 1..Len(tags) : ~InCaptures(tags[i])
                THEN CapFail(Msg("unknown_tags", "", << >>, << >>))
                ELSE \E head_found \in BOOLEAN :
                       IF ~head_found
                       THEN CapFail(Msg("git_rev_parse_failed", "", << >>, << >>))
                       ELSE cap' = [cap EXCEPT !.pc = "capture", !.todo = tags,
                                               !.i = 1,
                                               !.manifest = manifestFile.doc]
    /\ UNCHANGED <<capFrame, manifestView, manifestFile, baselinePng, edited>>

\* the files paint_example may leave at --screenshot: the entry's size
\* with the same or other pixels, another size, or the file as it was
CapturedPngs(entry, before) ==
    { Png(entry.width[1], entry.height[1], "pixels"),
      Png(entry.width[1], entry.height[1], "drift"),
      Png(640, 480, "pixels"),
      before }

\* one pass of `for tag in tags`: capture_once, validate_dimensions and the
\* update of the entry
CaptureTag ==
    /\ cap.pc = "capture"
    /\ cap.i <= Len(cap.todo)
    /\ LET tag == cap.todo[cap.i]
           entry == cap.manifest[1].captures[tag]
       IN  IF entry.width = None \/ entry.height = None
           THEN /\ CapFail(Msg("key_error", tag, << >>, << >>))
                /\ UNCHANGED baselinePng
           ELSE IF cap.dry_run
           THEN /\ cap' = [cap EXCEPT !.i = @ + 1]
                /\ UNCHANGED baselinePng
           ELSE \E returncode \in {0, 1},
                   file \in CapturedPngs(entry, baselinePng[entry.path]) :
                  /\ baselinePng' = [baselinePng EXCEPT ![entry.path] = file]
                  /\ IF returncode # 0
                     THEN CapFail(Msg("producer_failed", tag, << returncode >>, << >>))
                     ELSE IF ~file.exists
                     THEN CapFail(Msg("file_not_found", tag, << >>, << >>))
                     ELSE IF png_invalid(file)
                     THEN CapFail(Msg("not_a_png", tag, << >>, << >>))
                     ELSE IF read_png_dimensions(file)
                             # << entry.width[1], entry.height[1] >>
                     THEN CapFail(Msg("capture_size", tag,
                                      read_png_dimensions(file), << >>))
                     ELSE cap' =
                            [cap EXCEPT
                               !.manifest[1].captures[tag].sha256 =
                                   Some(compute_sha256(file)),
                               !.manifest[1].captures[tag].revision = @ + 1,
                               !.updated = TRUE,
                               !.i = @ + 1]
    /\ UNCHANGED <<capFrame, manifestView, manifestFile, edited>>

\* after the loop: `return 0` of a dry run or of a run that updated
\* nothing, else the revision is bumped and save_manifest is called
CaptureFinish ==
    /\ cap.pc = "capture"
    /\ cap.i > Len(cap.todo)
    /\ IF cap.dry_run \/ ~cap.updated
       THEN cap' = [cap EXCEPT !.pc = "done", !.exit = Some(0)]
       ELSE LET data == [cap.manifest[1] EXCEPT
                           !.manifest_revision =
                               Some(next_manifest_revision(cap.manifest[1]))]
            IN  cap' = [cap EXCEPT !.pc = "save", !.manifest = Some(data)]
    /\ UNCHANGED <<capFrame, manifestView, manifestFile, baselinePng, edited>>

\* save_manifest opening the manifest path itself
SaveOpenInPlace ==
    /\ cap.pc = "save"
    /\ manifestFile' = [exists |-> TRUE, doc |-> None]
    /\ cap' = [cap EXCEPT !.pc = "dump"]
    /\ UNCHANGED <<capFrame, manifestView, baselinePng, edited>>

\* save_manifest: tmp_path.open("w") creates or truncates the .tmp file,
\* whose text is no JSON document until json.dump is through
SaveOpen ==
    /\ cap.pc = "save"
    /\ cap' = [cap EXCEPT !.pc = "dump", !.tmp = [exists |-> TRUE, doc |-> None]]
    /\ UNCHANGED <<capFrame, manifestView, manifestFile, baselinePng, edited>>

\* json.dump(data, handle), the final newline, and the end of the `with`
SaveDump ==
    /\ cap.pc = "dump"
    /\ cap' = [cap EXCEPT !.pc = "replace",
                          !.tmp = [exists |-> TRUE, doc |-> cap.manifest]]
    /\ UNCHANGED <<capFrame, manifestView, manifestFile, baselinePng, edited>>

\* tmp_path.replace(path); `return 0`
CaptureReplace ==
    /\ cap.pc = "replace"
    /\ manifestFile' = cap.tmp
    /\ cap' = [cap EXCEPT !.pc = "done", !.tmp = [exists |-> FALSE, doc |-> None],
                          !.exit = Some(0)]
    /\ edited' =
         [ capture |-> TRUE, marker |-> FALSE, changelog |-> FALSE,
           logHad |-> \E i \in 1..Len(changelogFile.lines) :
                        changelogFile.lines[i]
                            = Header(cap.manifest[1].manifest_revision[1]),
           markerOff |-> /\ markerFile.exists
                         /\ markerFile.text.kind = "int"
                         /\ markerFile.text.value
                              # cap.manifest[1].manifest_revision[1] ]
    /\ UNCHANGED <<capFrame, manifestView, baselinePng>>

\* the process is gone, and so is whoever read the manifest beside it
CaptureExit ==
    /\ cap.pc = "done"
    /\ cap' = CapIdle
    /\ manifestView' = None
    /\ UNCHANGED <<capFrame, manifestFile, baselinePng, edited>>

\* another process reads the manifest path (as load_manifest does) while
\* paint_example_capture runs
ManifestReaderRead ==
    /\ cap.pc # "idle"
    /\ manifestView' = Some(manifestFile)
    /\ UNCHANGED <<capFrame, cap, manifestFile, baselinePng, edited>>

\* the checkouts paint_example_capture is run in: the binary is built, the
\* manifest lists both captures, and each baseline PNG is the one its
\* entry was taken from
CaptureWorlds ==
    { [exists |-> TRUE, doc |-> Some(Manifest(r, GoodCaptures))] :
        r \in { None, Some(1) } }

CaptureInit ==
    /\ MainIdle
    /\ evIn = EvalUnused
    /\ evOut = None
    /\ manifestFile \in CaptureWorlds
    /\ markerFile = [exists |-> FALSE, text |-> MarkerEmpty]
    /\ changelogFile = [exists |-> FALSE, lines |-> << >>]
    /\ artifacts = GoodArtifacts
    /\ baselinePng = [path \in { TagPath(tag) : tag \in Tags } |->
                        GoodPng(CHOOSE tag \in Tags : TagPath(tag) = path)]
    /\ paintBinary = TRUE
    /\ reportFile = None
    /\ mon = MonIdle
    /\ cap = CapIdle
    /\ shot = ShotIdle
    /\ edited = NotEdited
    /\ manifestView = None
    /\ sse = SseIdle

CaptureNext ==
    \/ CaptureLaunch
    \/ CaptureStart
    \/ CaptureTag
    \/ CaptureFinish
    \/ SaveOpen
    \/ SaveDump
    \/ CaptureReplace
    \/ CaptureExit
    \/ ManifestReaderRead

SpecCapture == CaptureInit /\ [][CaptureNext]_vars

----------------------------------------------------------------------------
(* The baseline-update protocol: the maintainer runs paint_example_capture *)
(* and paint_example_monitor one after the other in one checkout, and      *)
(* edits the expected-revision file and the palette log by hand in         *)
(* between.                                                                *)

\* what a hand edit leaves alone
editFrame == <<mainVars, evalVars, manifestFile, baselinePng, artifacts,
               paintBinary, reportFile, mon, cap, shot, manifestView, panelVars>>

\* the expected-revision file is written, emptied or removed by hand
EditMarker ==
    /\ mon.pc = "idle" /\ cap.pc = "idle" /\ shot.pc = "idle"
    /\ \E file \in MarkerChoices \ { markerFile } : markerFile' = file
    /\ edited' = [edited EXCEPT !.marker = TRUE]
    /\ UNCHANGED <<editFrame, changelogFile>>

\* the palette log is rewritten or removed by hand
EditChangelog ==
    /\ mon.pc = "idle" /\ cap.pc = "idle" /\ shot.pc = "idle"
    /\ \E file \in ChangelogChoices \ { changelogFile } : changelogFile' = file
    /\ edited' = [edited EXCEPT !.changelog = TRUE]
    /\ UNCHANGED <<editFrame, markerFile>>

\* the checkouts the protocol starts in: any manifest, marker and palette
\* log, with one capture, its baseline PNG and its artifacts in order, and
\* the paint_example binary built; and one checkout without the binary
ProtocolWorlds ==
    LET one == "1280x800" :> GoodEntry("1280x800")
    IN  { [manifest |-> m, marker |-> k, changelog |-> c, binary |-> TRUE] :
            m \in { [exists |-> FALSE, doc |-> None], [exists |-> TRUE, doc |-> None] }
                  \cup { [exists |-> TRUE, doc |-> Some(Manifest(r, one))] :
                         r \in { None } \cup { Some(n) : n \in Revisions } },
            k \in MarkerChoices,
            c \in ChangelogChoices }
        \cup { [manifest |-> [exists |-> TRUE, doc |-> Some(Manifest(Some(1), one))],
                marker |-> [exists |-> TRUE, text |-> MarkerInt(1)],
                changelog |-> ChangelogWith({ 1 }),
                binary |-> FALSE] }

ProtocolInit ==
    /\ MainIdle
    /\ evIn = EvalUnused
    /\ evOut = None
    /\ \E world \in ProtocolWorlds :
         /\ manifestFile = world.manifest
         /\ markerFile = world.marker
         /\ changelogFile = world.changelog
         /\ paintBinary = world.binary
    /\ artifacts = GoodArtifacts
    /\ baselinePng = [path \in { TagPath(tag) : tag \in Tags } |->
                        GoodPng(CHOOSE tag \in Tags : TagPath(tag) = path)]
    /\ reportFile = None
    /\ mon = MonIdle
    /\ cap = CapIdle
    /\ shot = ShotIdle
    /\ edited = NotEdited
    /\ manifestView = None
    /\ sse = SseIdle

ProtocolNext ==
    \/ MonitorNext
    \/ CaptureLaunch
    \/ CaptureStart
    \/ CaptureTag
    \/ CaptureFinish
    \/ SaveOpen
    \/ SaveDump
    \/ CaptureReplace
    \/ CaptureExit
    \/ EditMarker
    \/ EditChangelog

SpecProtocol == ProtocolInit /\ [][ProtocolNext]_vars

----------------------------------------------------------------------------
(* The baseline-update protocol, checked under SpecProtocol.               *)

\* a monitor run that started after a capture rewrote the manifest has
\* passed
PassedAfterCapture == MonDone /\ edited.capture /\ mon.exit = Some(0)

\* C16 as stated: from any state of the manifest, the marker and the
\* palette log, once a capture run has rewritten the manifest a monitor run
\* passes only if both the palette log and the marker were edited after the
\* capture.
C16_AsStated == PassedAfterCapture => ( edited.changelog /\ edited.marker )

\* C16, amended: once a capture run has rewritten the manifest, a monitor
\* run passes only if the palette log was edited after the capture or held
\* a header for the new revision when the capture ended, and only if the
\* marker was edited after the capture or did not then hold an integer
\* other than the new revision.
C16_UpdateProtocol ==
    PassedAfterCapture =>
        /\ edited.changelog \/ edited.logHad
        /\ edited.marker \/ ~edited.markerOff

\* a capture bumped the manifest to revision 2 while the marker held 1 and
\* the palette log had no header for 2; both were edited and the monitor
\* passed
C16_Witness ==
    /\ PassedAfterCapture
    /\ ManifestRevision = 2
    /\ ~edited.logHad /\ edited.markerOff
    /\ edited.changelog /\ edited.marker

----------------------------------------------------------------------------
(* check_paint_screenshot.  paint_example is launched with --screenshot at *)
(* build/artifacts/paint_example/paint_example_<tag>_screenshot.png, the   *)
(* file paint_example_monitor reads for the tag: what an attempt leaves    *)
(* there is a choice, as in paint_example_capture.  The diff image is read *)
(* by neither script and is left out.                                      *)

\* sys.exit(1) or `return 1` after a message
ShotFail(msg) ==
    shot' = [shot EXCEPT !.pc = "done", !.exit = Some(1),
                         !.stderr = Append(@, msg)]

\* what an attempt of paint_example leaves alone
shotRunFrame == <<mainVars, evalVars, manifestFile, markerFile, changelogFile,
                  baselinePng, paintBinary, reportFile, mon, cap, edited,
                  manifestView, panelVars>>

shotFrame == <<shotRunFrame, artifacts>>

\* args.tag if args.tag else f"{args.width}x{args.height}"
entry_key(a) ==
    IF a.tag # None /\ a.tag[1] # "" THEN a.tag[1]
    ELSE ToString(a.width) \o "x" \o ToString(a.height)

\* the command lines: the defaults, another --baseline, a tagged capture,
\* and a size the manifest has no entry for
ShotArgs ==
    { [width |-> 1280, height |-> 800, tag |-> None, baseline |-> TagPath("1280x800")],
      [width |-> 1280, height |-> 800, tag |-> None, baseline |-> TagPath("paint_720")],
      [width |-> 1280, height |-> 720, tag |-> Some("paint_720"),
       baseline |-> TagPath("paint_720")],
      [width |-> 1280, height |-> 720, tag |-> None, baseline |-> TagPath("paint_720")] }

\* a new invocation: parse_args
ShotLaunch ==
    /\ mon.pc = "idle" /\ cap.pc = "idle" /\ shot.pc = "idle"
    /\ \E a \in ShotArgs :
         shot' = [ShotIdle EXCEPT !.pc = "start", !.width = a.width,
                                  !.height = a.height, !.tag = a.tag,
                                  !.baseline = a.baseline]
    /\ UNCHANGED shotFrame

\* the binary and the baseline PNG must exist
ShotStart ==
    /\ shot.pc = "start"
    /\ IF ~paintBinary
       THEN ShotFail(Msg("missing_binary", "", << >>, << >>))
       ELSE IF ~baselinePng[shot.baseline].exists
       THEN ShotFail(Msg("baseline_not_found", "", << >>, << >>))
       ELSE shot' = [shot EXCEPT !.pc = "manifest"]
    /\ UNCHANGED shotFrame

\* load_manifest_entry(repo_root, args)
ShotLoadManifestEntry ==
    /\ shot.pc = "manifest"
    /\ LET key == entry_key(shot)
           manifest == manifestFile.doc[1]
           entry == manifest.captures[key]
           file == baselinePng[shot.baseline]
           actual_sha == compute_sha256(file)
       IN  IF ~manifestFile.exists
           THEN ShotFail(Msg("manifest_missing", "", << >>, << >>))
           ELSE IF manifestFile.doc = None
           THEN ShotFail(Msg("json_decode_error", "", << >>, << >>))
           ELSE IF manifest.manifest_revision = None
           THEN ShotFail(Msg("manifest_missing_revision", "", << >>, << >>))
           ELSE IF key \notin DOMAIN manifest.captures
           THEN ShotFail(Msg("no_entry", key, << >>, << >>))
           ELSE IF entry.path # shot.baseline
           THEN ShotFail(Msg("baseline_path_mismatch", key, << >>,
                             << entry.path, shot.baseline >>))
           ELSE IF entry.width = None \/ entry.height = None
           THEN ShotFail(Msg("entry_missing_size", key, << >>, << >>))
           ELSE IF entry.width[1] # shot.width \/ entry.height[1] # shot.height
           THEN ShotFail(Msg("dimension_mismatch", key,
                             << entry.width[1], entry.height[1],
                                shot.width, shot.height >>, << >>))
           ELSE IF png_invalid(file)
           THEN ShotFail(Msg("not_a_png", key, << >>, << >>))
           ELSE IF read_png_dimensions(file) # << entry.width[1], entry.height[1] >>
           THEN ShotFail(Msg("unexpected_dimensions", key,
                             read_png_dimensions(file), << >>))
           ELSE IF entry.sha256 = None
           THEN ShotFail(Msg("entry_missing_sha256", key, << >>, << >>))
           ELSE IF actual_sha # entry.sha256[1]
           THEN ShotFail(Msg("hash_mismatch", key, << >>,
                             << entry.sha256[1], actual_sha >>))
           ELSE shot' = [shot EXCEPT !.pc = "run",
                                     !.revision = manifest.manifest_revision,
                                     !.sha = Some(actual_sha)]
    /\ UNCHANGED shotFrame

\* the exit codes of paint_example
ReturnCodes == { 0, 1, 2 }

\* main's return value taken from the first attempt
shot_result_first(attempts) == attempts[1]

\* main's return value after the attempts it made
shot_result(attempts) ==
    IF Len(attempts) = 2 /\ attempts[2] # 0 THEN attempts[2] ELSE 0

\* the files an attempt may leave at --screenshot: a capture of
\* --width x --height with the same or other pixels, another size, or the
\* file as it was
ShotScreenshots ==
    CapturedPngs([width |-> Some(shot.width), height |-> Some(shot.height)],
                 artifacts[entry_key(shot)].screenshot)

\* result = run_capture(1): paint_example leaves a file at --screenshot;
\* `return 0` when it exits 0, and the two messages 'paint_example reported
\* a failure' and 'Retrying once after 0.5s...' on stderr when it does not
ShotAttempt ==
    /\ shot.pc = "run"
    /\ \E returncode \in ReturnCodes, file \in ShotScreenshots :
         LET attempts == Append(shot.attempts, returncode)
         IN  /\ artifacts' = [artifacts EXCEPT ![entry_key(shot)].screenshot = file]
             /\ IF returncode # 0
                THEN shot' = [shot EXCEPT
                                !.pc = "retry", !.attempts = attempts,
                                !.stderr = @ \o << Msg("attempt_failed", "", << >>, << >>),
                                                   Msg("retrying", "", << >>, << >>) >>]
                ELSE shot' = [shot EXCEPT !.pc = "done", !.attempts = attempts,
                                          !.exit = Some(shot_result(attempts))]
    /\ UNCHANGED shotRunFrame

\* retry = run_capture(2): paint_example leaves a file at --screenshot
\* again; `return retry.returncode` or `return 0`
ShotRetry ==
    /\ shot.pc = "retry"
    /\ \E returncode \in ReturnCodes, file \in ShotScreenshots :
         LET attempts == Append(shot.attempts, returncode)
         IN  /\ artifacts' = [artifacts EXCEPT ![entry_key(shot)].screenshot = file]
             /\ shot' = [shot EXCEPT
                           !.pc = "done", !.attempts = attempts,
                           !.exit = Some(shot_result(attempts)),
                           !.stderr = IF returncode # 0
                                      THEN Append(@, Msg("failure_after_retry", "",
                                                         << >>, << >>))
                                      ELSE @]
    /\ UNCHANGED shotRunFrame

\* the process is gone
ShotExit ==
    /\ shot.pc = "done"
    /\ shot' = ShotIdle
    /\ UNCHANGED shotFrame

\* the checkouts check_paint_screenshot is run in: the default capture's
\* manifest entry and baseline PNG are anything, the rest is in order; and
\* checkouts without a usable manifest, or without the binary
ShotWorlds ==
    LET other == "paint_720"
        Files(f) == ( TagPath("1280x800") :> f ) @@ ( TagPath(other) :> GoodPng(other) )
        Caps(e) == ( "1280x800" :> e ) @@ ( other :> GoodEntry(other) )
        good == [manifest |-> [exists |-> TRUE,
                               doc |-> Some(Manifest(Some(1), GoodCaptures))],
                 files |-> Files(GoodPng("1280x800")), binary |-> TRUE]
    IN  { [manifest |-> [exists |-> TRUE, doc |-> Some(Manifest(Some(1), Caps(e)))],
           files |-> Files(f), binary |-> TRUE] :
            e \in EntryChoices("1280x800"), f \in PngChoices("1280x800") }
        \cup { [good EXCEPT !.manifest = m] :
               m \in { [exists |-> FALSE, doc |-> None], [exists |-> TRUE, doc |-> None],
                       [exists |-> TRUE, doc |-> Some(Manifest(None, GoodCaptures))] } }
        \cup { [good EXCEPT !.binary = FALSE] }

ShotInit ==
    /\ MainIdle
    /\ evIn = EvalUnused
    /\ evOut = None
    /\ \E world \in ShotWorlds :
         /\ manifestFile = world.manifest
         /\ baselinePng = world.files
         /\ paintBinary = world.binary
    /\ markerFile = [exists |-> FALSE, text |-> MarkerEmpty]
    /\ changelogFile = [exists |-> FALSE, lines |-> << >>]
    /\ artifacts = GoodArtifacts
    /\ reportFile = None
    /\ mon = MonIdle
    /\ cap = CapIdle
    /\ shot = ShotIdle
    /\ edited = NotEdited
    /\ manifestView = None
    /\ sse = SseIdle

ShotNext ==
    \/ ShotLaunch
    \/ ShotStart
    \/ ShotLoadManifestEntry
    \/ ShotAttempt
    \/ ShotRetry
    \/ ShotExit

SpecShot == ShotInit /\ [][ShotNext]_vars

----------------------------------------------------------------------------
(* Properties of check_paint_screenshot, checked under SpecShot.           *)

ShotDone == shot.pc = "done"

\* the digest of a file's bytes
DigestOf(file) == "sha256:" \o file.content

\* the manifest has an entry for the run's tag, and the baseline PNG has
\* the entry's width and height in its header and the entry's sha256
BaselineVerified ==
    /\ manifestFile.exists /\ manifestFile.doc # None
    /\ entry_key(shot) \in DOMAIN manifestFile.doc[1].captures
    /\ LET entry == manifestFile.doc[1].captures[entry_key(shot)]
           file == baselinePng[shot.baseline]
       IN  /\ file.exists /\ file.valid
           /\ entry.width = Some(file.width)
           /\ entry.height = Some(file.height)
           /\ entry.sha256 = Some(DigestOf(file))

\* the run got to the hash comparison, and the hashes differ
HashMismatch ==
    /\ paintBinary
    /\ manifestFile.exists /\ manifestFile.doc # None
    /\ manifestFile.doc[1].manifest_revision # None
    /\ entry_key(shot) \in DOMAIN manifestFile.doc[1].captures
    /\ LET entry == manifestFile.doc[1].captures[entry_key(shot)]
           file == baselinePng[shot.baseline]
       IN  /\ entry.path = shot.baseline
           /\ file.exists /\ file.valid
           /\ entry.width = Some(file.width) /\ entry.width = Some(shot.width)
           /\ entry.height = Some(file.height) /\ entry.height = Some(shot.height)
           /\ entry.sha256 # None
           /\ entry.sha256 # Some(DigestOf(file))

\* C13: the producer is never launched unless the baseline PNG has the
\* manifest entry's width, height and sha256; a run over a baseline that
\* has not (a mismatch, or an entry lacking width, height or sha256) ends
\* with exit code 1 and no producer attempt, and on a hash mismatch its
\* last message names the manifest's hash and the file's.
C13_VerifiedBeforeLaunch ==
    /\ shot.attempts # << >> => BaselineVerified
    /\ ( ShotDone /\ ~BaselineVerified )
         => shot.exit = Some(1) /\ shot.attempts = << >>
    /\ ( ShotDone /\ HashMismatch )
         => LET entry == manifestFile.doc[1].captures[entry_key(shot)]
            IN  shot.stderr[Len(shot.stderr)]
                  = Msg("hash_mismatch", entry_key(shot), << >>,
                        << entry.sha256[1], DigestOf(baselinePng[shot.baseline]) >>)

\* a run over a baseline PNG of the right size whose pixels are not the
\* ones the manifest's sha256 was taken from has ended
C13_Witness ==
    /\ ShotDone /\ HashMismatch
    /\ baselinePng[shot.baseline].content = "drift"
    /\ shot.exit = Some(1) /\ shot.attempts = << >>

\* C17: the producer is launched at most twice, the second time only after
\* the first attempt exited non-zero; a run that launched it returns 0 if
\* and only if the last attempt exited 0, and returns the second attempt's
\* exit code when both failed.
C17_SingleRetry ==
    /\ Len(shot.attempts) <= 2
    /\ Len(shot.attempts) = 2 => shot.attempts[1] # 0
    /\ ( ShotDone /\ shot.attempts # << >> )
         => /\ shot.exit = Some(0) <=> shot.attempts[Len(shot.attempts)] = 0
            /\ ( Len(shot.attempts) = 2 /\ shot.attempts[2] # 0 )
                 => shot.exit = Some(shot.attempts[2])
            /\ shot.attempts[1] # 0 => Len(shot.attempts) = 2

\* both attempts failed, with different exit codes
C17_Witness ==
    /\ ShotDone
    /\ shot.attempts = << 1, 2 >>
    /\ shot.exit = Some(2)

----------------------------------------------------------------------------
(* Properties of paint_example_capture, checked under SpecCapture.         *)

\* the captures of the manifest on disk
DiskCaptures == manifestFile.doc[1].captures

\* a manifest entry describes the PNG stored at its path
EntryMatchesFile(entry) ==
    LET file == baselinePng[entry.path]
    IN  /\ file.exists /\ file.valid
        /\ entry.width = Some(file.width)
        /\ entry.height = Some(file.height)
        /\ entry.sha256 = Some(DigestOf(file))

\* C23 as stated: whenever no capture is running, every entry of the
\* manifest on disk has the sha256, width and height of the PNG stored at
\* its path, also after runs that stopped part-way.
C23_AsStated ==
    cap.pc = "idle" =>
        \A tag \in DOMAIN DiskCaptures : EntryMatchesFile(DiskCaptures[tag])

\* the manifest_revision of a manifest file, 0 when it has none
RevisionOf(file) ==
    IF file.doc[1].manifest_revision = None THEN 0
    ELSE file.doc[1].manifest_revision[1]

\* a step rewrites the manifest on disk
ManifestRewritten == manifestFile' # manifestFile

\* C24 as stated: whenever the manifest is rewritten, an entry whose sha256
\* changes has its revision raised by exactly 1, and an entry whose sha256
\* stays the same keeps its revision.
C24_AsStated ==
    [][ ManifestRewritten =>
          \A tag \in DOMAIN DiskCaptures :
            LET old == DiskCaptures[tag]
                new == manifestFile'.doc[1].captures[tag]
            IN  IF new.sha256 # old.sha256
                THEN new.revision = old.revision + 1
                ELSE new.revision = old.revision
      ]_vars

\* C25: the manifest_revision on disk never decreases and is strictly
\* greater after a run that changed an entry's sha256; the manifest is
\* rewritten only by save_manifest at the end of a run that is no dry run
\* and updated an entry, so a dry run and a run that fails leave the
\* manifest_revision as it was.
C25_ManifestRevision ==
    [][ /\ RevisionOf(manifestFile') >= RevisionOf(manifestFile)
        /\ ( \E tag \in DOMAIN DiskCaptures :
               manifestFile'.doc[1].captures[tag].sha256 # DiskCaptures[tag].sha256 )
             => RevisionOf(manifestFile') > RevisionOf(manifestFile)
        /\ ManifestRewritten
             => /\ cap.pc = "replace" /\ ~cap.dry_run /\ cap.updated
                /\ cap'.exit = Some(0)
        /\ ( cap.pc = "done" /\ ( cap.dry_run \/ cap.exit # Some(0) ) )
             => manifestFile = cap.found
      ]_vars

\* a run that captured other pixels for a tag has saved the manifest with
\* the next manifest_revision
C25_Witness ==
    /\ cap.pc = "done" /\ cap.exit = Some(0)
    /\ \E tag \in DOMAIN DiskCaptures :
         DiskCaptures[tag].sha256 # cap.found.doc[1].captures[tag].sha256
    /\ RevisionOf(manifestFile) = RevisionOf(cap.found) + 1

\* the run is saving or has saved a manifest
Saving == cap.pc \in { "save", "dump", "replace" } \/ manifestFile # cap.found

\* C29: whoever reads the manifest path while paint_example_capture runs
\* reads the complete manifest the run found or the complete manifest it
\* saves, never a partial document; the manifest path is not touched in a
\* dry run or when no entry was updated.
C29_AtomicReplace ==
    /\ manifestView # None
         => /\ manifestView[1].exists /\ manifestView[1].doc # None
            /\ \/ manifestView[1] = cap.found
               \/ Saving /\ manifestView[1].doc = cap.manifest
    /\ ( cap.pc # "idle" /\ ( cap.dry_run \/ ~cap.updated ) )
         => manifestFile = cap.found

\* the manifest was read while the .tmp file was complete and not yet
\* renamed, and the reader got the manifest the run found
C29_Witness ==
    /\ cap.pc = "replace"
    /\ cap.tmp.exists /\ cap.tmp.doc = cap.manifest
    /\ manifestView = Some(cap.found)
    /\ manifestFile = cap.found

----------------------------------------------------------------------------
(* capture_renderer_fps_traces: run_benchmark reads the benchmark's        *)
(* stdout.  A line of stdout is a record: what it is after strip(), the    *)
(* integers of a Canvas or Small-surface line, and the key=value tokens    *)
(* KV_PATTERN finds in it.  A value token is its number, its unit, whether *)
(* a comma follows, and its text when it has no number.                    *)

MaxLines == 3

ValueToken(number, unit, comma, text) ==
    [number |-> number, unit |-> unit, comma |-> comma, text |-> text]

StdoutLine(kind, ints, kv) == [kind |-> kind, ints |-> ints, kv |-> kv]

\* value.rstrip(",")
rstrip_comma(value) == [value EXCEPT !.comma = FALSE]

\* unit.lower(), for the units of the model
str_lower(unit) ==
    IF unit \in { "MB", "Mb", "mB", "mb" } THEN "mb"
    ELSE IF unit \in { "GB", "Gb", "gB", "gb" } THEN "gb"
    ELSE unit

\* 1024.0 * 1024.0 for "mb" and 1024.0 * 1024.0 * 1024.0 for "gb", with
\* `kilo` the double 1024.0
multiplier(unit, kilo) ==
    IF unit = "mb" THEN fl_mul(kilo, kilo) ELSE fl_mul(fl_mul(kilo, kilo), kilo)

\* parse_numeric from `if unit and unit.lower() in {"mb", "gb"}` on
with_unit(number, unit) ==
    IF unit # None /\ str_lower(unit[1]) \in { "mb", "gb" }
    THEN [ number |-> Some(fl_mul(number, multiplier(str_lower(unit[1]),
                                                     FloatOfInt(1024)))),
           unit |-> Some("bytes") ]
    ELSE [number |-> Some(number), unit |-> unit]

\* parse_numeric(value): (number, unit) with the number a double, megabytes
\* and gigabytes turned into bytes
parse_numeric(value) ==
    IF value.number = None THEN [number |-> None, unit |-> None]
    ELSE with_unit(FloatOfInt(value.number[1]), value.unit)

\* metrics[key] = {"raw": ..., "value": number, "unit": unit if number is
\* not None else None}
metrics_entry(value, parsed) ==
    [ raw |-> rstrip_comma(value),
      value |-> parsed.number,
      unit |-> IF parsed.number = None THEN None ELSE parsed.unit ]

\* parse_metrics_line(line): key -> entry, a later key=value replacing an
\* earlier one with the same key
parse_metrics_line(line) ==
    LET keys == { line.kv[i].key : i \in 1..Len(line.kv) }
        Last(key) == CHOOSE i \in 1..Len(line.kv) :
                        /\ line.kv[i].key = key
                        /\ \A j \in (i + 1)..Len(line.kv) : line.kv[j].key # key
    IN  [ key \in keys |->
            metrics_entry(line.kv[Last(key)].value,
                          parse_numeric(line.kv[Last(key)].value)) ]

\* the locals of run_benchmark before the loop
NoSample ==
    [ canvas_info |-> None, full_repaint |-> << >>, incremental |-> << >>,
      small_surface |-> None ]

\* the loop `for line in stdout` from line i on
RECURSIVE scan_lines(_, _, _)
scan_lines(stdout, acc, i) ==
    IF i > Len(stdout) THEN acc
    ELSE LET line == stdout[i]
             next ==
               IF line.kind = "blank" THEN acc
               ELSE IF line.kind = "canvas"
               THEN [acc EXCEPT !.canvas_info =
                        Some([ width_px |-> line.ints[1], height_px |-> line.ints[2],
                               progressive_tiles |-> line.ints[3],
                               initial_tile_size_px |-> line.ints[4] ])]
               ELSE IF line.kind = "full"
               THEN [acc EXCEPT !.full_repaint = parse_metrics_line(line)]
               ELSE IF line.kind = "incremental"
               THEN [acc EXCEPT !.incremental = parse_metrics_line(line)]
               ELSE IF line.kind = "small_surface"
               THEN [acc EXCEPT !.small_surface =
                        Some([ tiles |-> line.ints[1], sample_count |-> line.ints[2] ])]
               ELSE acc
         IN  scan_lines(stdout, next, i + 1)

\* run_benchmark after the loop, with `found` the locals the loop leaves
sample_of(canvas, stdout, found) ==
    IF found.canvas_info = None
    THEN [ ok |-> FALSE, error |-> "RuntimeError", quoted |-> stdout ]
    ELSE [ ok |-> TRUE,
           sample |-> [ canvas |-> canvas,
                        canvas_info |-> found.canvas_info[1],
                        full_repaint |-> found.full_repaint,
                        incremental_stroke |-> found.incremental,
                        small_surface |-> found.small_surface,
                        raw_output |-> stdout ] ]

\* run_benchmark(executable, canvas, enable_metrics) when the benchmark
\* exits with `returncode` and prints `stdout`
run_benchmark(canvas, returncode, stdout) ==
    IF returncode # 0
    THEN [ ok |-> FALSE, error |-> "CalledProcessError", quoted |-> << >> ]
    ELSE sample_of(canvas, stdout, scan_lines(stdout, NoSample, 1))

\* the lines a benchmark may print
BenchmarkLines ==
    { StdoutLine("blank", << >>, << >>),
      StdoutLine("canvas", << 800, 600, 4, 64 >>, << >>),
      StdoutLine("canvas_unmatched", << >>, << >>),
      StdoutLine("full", << >>,
                 << [key |-> "fps", value |-> ValueToken(Some(60), None, TRUE, "")],
                    [key |-> "bytes", value |-> ValueToken(Some(2), Some("MB"), FALSE, "")] >>),
      StdoutLine("incremental", << >>,
                 << [key |-> "fps", value |-> ValueToken(None, None, FALSE, "n/a")],
                    [key |-> "fps", value |-> ValueToken(Some(120), None, FALSE, "")],
                    [key |-> "bytes", value |-> ValueToken(Some(2), Some("Gb"), TRUE, "")] >>),
      StdoutLine("small_surface", << 2, 8 >>, << >>),
      StdoutLine("other", << >>, << >>) }

TracesInputs ==
    { [ canvas |-> "800x600", returncode |-> returncode, stdout |-> stdout ] :
        returncode \in { 0, 1 },
        stdout \in UNION { [1..n -> BenchmarkLines] : n \in 0..MaxLines } }

TracesInit ==
    /\ MainIdle
    /\ PaintIdle
    /\ evIn \in TracesInputs
    /\ evOut = None

\* samples.append(run_benchmark(executable, canvas, enable_metrics))
RunBenchmark ==
    /\ evOut = None
    /\ evOut' = Some(run_benchmark(evIn.canvas, evIn.returncode, evIn.stdout))
    /\ UNCHANGED <<evIn, mainVars, paintVars, panelVars>>

TracesNext == RunBenchmark

SpecTraces == TracesInit /\ [][TracesNext]_vars

----------------------------------------------------------------------------
(* Properties of run_benchmark, checked under SpecTraces.                  *)

IsStats(line) == line.kind \in { "full", "incremental" }

\* no Canvas header comes before the first stats line of the output
NoHeaderBeforeStats(stdout) ==
    /\ \E i \in 1..Len(stdout) : IsStats(stdout[i])
    /\ LET first == CHOOSE i \in 1..Len(stdout) :
                      IsStats(stdout[i]) /\ \A j \in 1..(i - 1) : ~IsStats(stdout[j])
       IN  \A j \in 1..(first - 1) : stdout[j].kind # "canvas"

\* C21 as stated: of the output of a benchmark that exited 0, if no Canvas
\* header comes before the first stats line, run_benchmark fails with an
\* error quoting the whole stdout and returns no sample; no sample without
\* canvas information is returned.
C21_AsStated ==
    ( evOut # None /\ evIn.returncode = 0 ) =>
        /\ NoHeaderBeforeStats(evIn.stdout)
             => /\ ~evOut[1].ok
                /\ evOut[1].quoted = evIn.stdout
        /\ evOut[1].ok => evOut[1].sample.canvas_info.width_px > 0

----------------------------------------------------------------------------
(* size_guardrail: ensure_baseline in checking mode.  Sizes are bytes, a   *)
(* percent is the plain number.                                            *)

DEFAULT_TOLERANCE_PERCENT == 5

DEFAULT_TOLERANCE_ABS_BYTES == 262144

\* the relative paths of the model; the tracked ones stand in the order
\* collect_sizes lists them in (the order of TARGET_BINARIES)
PathOrder ==
    << "examples/legacy_example", "examples/paint_example", "examples/widgets_example" >>

\* the binaries collect_sizes tracks
TrackedPaths == { "examples/paint_example", "examples/widgets_example" }

SizeProblem(kind, path, ints) == [kind |-> kind, path |-> path, ints |-> ints]

\* int(baseline_size * (percent / 100.0)): `percent` is a double that
\* holds an integer, the product is a double, int() drops its fraction
percent_of(baseline_size, percent) ==
    fl_int(fl_mul(FloatOfInt(baseline_size), fl_quot(percent, 100)))

\* allowed_growth = max(abs_bytes, int(baseline_size * (percent / 100.0)))
allowed_growth(abs_bytes, baseline_size, percent) ==
    IF abs_bytes >= percent_of(baseline_size, percent) THEN abs_bytes
    ELSE percent_of(baseline_size, percent)

\* one pass of `for rel_path, info in recorded.items()`
check_recorded(rel_path, info, current_by_path, percent, abs_bytes) ==
    IF rel_path \notin DOMAIN current_by_path
    THEN << SizeProblem("not_tracked", rel_path, << >>) >>
    ELSE IF ~current_by_path[rel_path].found
    THEN << SizeProblem("missing", rel_path, << info.sizeBytes >>) >>
    ELSE LET baseline_size == info.sizeBytes
             size_bytes == current_by_path[rel_path].sizeBytes
             limit == baseline_size + allowed_growth(abs_bytes, baseline_size, percent)
         IN  IF size_bytes > limit
             THEN << SizeProblem("grew", rel_path,
                                 << size_bytes - baseline_size, limit,
                                    baseline_size, size_bytes >>) >>
             ELSE << >>

\* the loop `for rel_path, info in recorded.items()`, from the i-th member
\* of "binaries" on; `paths` lists the members in the order they have in
\* the baseline document
RECURSIVE recorded_problems(_, _, _, _, _, _)
recorded_problems(paths, recorded, current_by_path, percent, abs_bytes, i) ==
    IF i > Len(paths) THEN << >>
    ELSE check_recorded(paths[i], recorded[paths[i]], current_by_path,
                        percent, abs_bytes)
         \o recorded_problems(paths, recorded, current_by_path, percent,
                              abs_bytes, i + 1)

\* the loop `for rel_path, entry in current_by_path.items()`: new binaries
new_binary_problems(recorded, current_by_path) ==
    LET New(path) == /\ path \in DOMAIN current_by_path
                     /\ path \notin DOMAIN recorded
                     /\ current_by_path[path].found
        new == SelectSeq(PathOrder, New)
    IN  [ i \in 1..Len(new) |-> SizeProblem("new", new[i], << >>) ]

\* ensure_baseline(entries, baseline_path, tolerance_percent,
\* tolerance_abs, record=False) over a baseline file that loads: `problems`
ensure_baseline(entries, baseline, tolerance_percent, tolerance_abs) ==
    LET percent == IF baseline.tolerance.percent = None THEN tolerance_percent
                   ELSE baseline.tolerance.percent[1]
        abs_bytes == IF baseline.tolerance.absoluteBytes = None THEN tolerance_abs
                     ELSE baseline.tolerance.absoluteBytes[1]
    IN  recorded_problems(baseline.paths, baseline.binaries, entries, percent,
                          abs_bytes, 1)
        \o new_binary_problems(baseline.binaries, entries)

\* the recorded sizes of paint_example, and how far the build is from them;
\* a binary the build no longer tracks is recorded before or after it (a
\* file written by --record-baseline has it first, one edited by hand may
\* not)
SizeBaselines == { 0, 100, 200, 300 }

SizeGrowths ==
    { 0 - 60, 0 - 10, 0, 5, 6, 10, 11, 28, 29, 30, 57, 58, 59,
      DEFAULT_TOLERANCE_ABS_BYTES, DEFAULT_TOLERANCE_ABS_BYTES + 1 }

SizePercents == { None, Some(0 - 50), Some(0 - 29), Some(0), Some(5), Some(29) }

SizeAbsolutes == { None, Some(0 - 10), Some(0), Some(10) }

SizeInputs ==
  LET all ==
    { [ baseline |->
          [ tolerance |-> [percent |-> pc_, absoluteBytes |-> ab],
            binaries |-> ( "examples/paint_example" :> [sizeBytes |-> b] )
                         @@ ( IF legacy = "none" THEN << >>
                              ELSE "examples/legacy_example" :> [sizeBytes |-> 100] ),
            paths |-> IF legacy = "none" THEN << "examples/paint_example" >>
                      ELSE IF legacy = "first"
                      THEN << "examples/legacy_example", "examples/paint_example" >>
                      ELSE << "examples/paint_example", "examples/legacy_example" >> ],
        entries |->
          ( "examples/paint_example" :>
              [found |-> found, sizeBytes |-> IF found THEN b + g ELSE 0] )
          @@ ( "examples/widgets_example" :> [found |-> widgets, sizeBytes |-> 100] ) ] :
        pc_ \in SizePercents, ab \in SizeAbsolutes, b \in SizeBaselines,
        g \in SizeGrowths,
        found \in BOOLEAN, legacy \in { "none", "first", "last" },
        widgets \in BOOLEAN }
  IN  { in \in all : in.entries["examples/paint_example"].sizeBytes >= 0 }

SizeInit ==
    /\ MainIdle
    /\ PaintIdle
    /\ evIn \in SizeInputs
    /\ evOut = None

\* main: ensure_baseline(entries, baseline_path, args.tolerance_percent,
\* args.tolerance_bytes, record=False) with the default tolerances
EnsureBaseline ==
    /\ evOut = None
    /\ evOut' = Some(ensure_baseline(evIn.entries, evIn.baseline,
                                     DEFAULT_TOLERANCE_PERCENT,
                                     DEFAULT_TOLERANCE_ABS_BYTES))
    /\ UNCHANGED <<evIn, mainVars, paintVars, panelVars>>

SizeNext == EnsureBaseline

SpecSize == SizeInit /\ [][SizeNext]_vars

----------------------------------------------------------------------------
(* Properties of ensure_baseline, checked under SpecSize.                  *)

SizePath == "examples/paint_example"

\* paint_example is in the baseline and was found in the build
SizeCompared == evOut # None /\ evIn.entries[SizePath].found

SizeFailed == \E i \in 1..Len(evOut[1]) : evOut[1][i].path = SizePath

BaselineSize == evIn.baseline.binaries[SizePath].sizeBytes

CurrentSize == evIn.entries[SizePath].sizeBytes

\* the tolerance in effect: the baseline file's, else the defaults
SizePercent ==
    IF evIn.baseline.tolerance.percent = None THEN DEFAULT_TOLERANCE_PERCENT
    ELSE evIn.baseline.tolerance.percent[1]

SizeAbsolute ==
    IF evIn.baseline.tolerance.absoluteBytes = None THEN DEFAULT_TOLERANCE_ABS_BYTES
    ELSE evIn.baseline.tolerance.absoluteBytes[1]

Larger(a, b) == IF a >= b THEN a ELSE b

\* the quotient n / d with its fraction dropped
TruncDiv(n, d) == IF n >= 0 THEN n \div d ELSE 0 - ( ( 0 - n ) \div d )

\* C22 as stated: a binary in the baseline and in the build fails iff its
\* size exceeds baselineSize + max(absoluteBytes, baselineSize * percent /
\* 100 truncated to an integer); one of equal or smaller size never fails.
\* A baseline of 100 bytes with 29 percent has the limit 129, and a binary
\* of 129 bytes is reported as grown (limit 128).
C22_AsStated ==
    SizeCompared =>
        /\ SizeFailed <=>
             CurrentSize > BaselineSize
                 + Larger(SizeAbsolute, TruncDiv(BaselineSize * SizePercent, 100))
        /\ CurrentSize <= BaselineSize => ~SizeFailed

----------------------------------------------------------------------------
(* paint_example_inspector_panel: one client on the event stream that      *)
(* handle_card_stream serves.  The model holds what the server writes to   *)
(* the stream.  The page served at / shows none of it: PANEL_HTML is not a *)
(* raw string, so the \" of source line 158 reach the browser as plain     *)
(* quotes, the page's script does not parse, and no EventSource is opened. *)

MaxEvents == 4

\* CardFetchResult
CardFetchResult(ok, payload, error_payload) ==
    [ok |-> ok, payload |-> payload, error_payload |-> error_payload]

\* the cards the CLI prints, after card.setdefault("source", ...)
Cards == { [status |-> "match"], [status |-> "drift"] }

\* the error payloads of fetch_card
CardErrors ==
    { [error |-> "card_cli_failure"], [error |-> "card_cli_invalid_json"] }

\* what fetch_card(config) may return
FetchResults ==
    { CardFetchResult(TRUE, Some(card), None) : card \in Cards }
    \cup { CardFetchResult(FALSE, None, Some(err)) : err \in CardErrors }

\* json.dumps(payload, separators=(",", ":"))
json_dumps_compact(payload) ==
    IF "status" \in DOMAIN payload
    THEN "{\"status\":\"" \o payload.status \o "\"}"
    ELSE "{\"error\":\"" \o payload.error \o "\"}"

SseEvent(event, data) == [event |-> event, data |-> data]

\* _write_sse(event, data)
write_sse(stream, event, data) ==
    [stream EXCEPT !.sent = Append(@, SseEvent(event, data))]

panelFrame == <<mainVars, evalVars, paintVars>>

\* a client opens /api/cards/paint-example/events: the headers are sent
PanelConnect ==
    /\ sse.pc = "closed"
    /\ sse' = [SseIdle EXCEPT !.pc = "polling"]
    /\ UNCHANGED panelFrame

\* one pass of `while True`: fetch_card, then the event it calls for
PanelPoll ==
    /\ sse.pc = "polling"
    /\ Len(sse.sent) < MaxEvents
    /\ \E result \in FetchResults :
         LET polled == [sse EXCEPT !.fetched = Some(result)]
         IN  IF result.ok /\ result.payload # None
             THEN LET serialized == json_dumps_compact(result.payload[1])
                  IN  IF Some(serialized) # sse.last_good
                      THEN sse' = [write_sse(polled, "card", serialized) EXCEPT
                                     !.last_good = Some(serialized),
                                     !.last_error = None]
                      ELSE sse' = polled
             ELSE LET serialized == json_dumps_compact(result.error_payload[1])
                  IN  IF Some(serialized) # sse.last_error
                      THEN sse' = [write_sse(polled, "card-error", serialized) EXCEPT
                                     !.last_error = Some(serialized)]
                      ELSE sse' = polled
    /\ UNCHANGED panelFrame

\* the client goes away: BrokenPipeError or ConnectionResetError, `break`
PanelDisconnect ==
    /\ sse.pc = "polling"
    /\ sse' = SseIdle
    /\ UNCHANGED panelFrame

PanelInit ==
    /\ MainIdle
    /\ PaintIdle
    /\ evIn = EvalUnused
    /\ evOut = None

PanelNext ==
    \/ PanelConnect
    \/ PanelPoll
    \/ PanelDisconnect

SpecPanel == PanelInit /\ [][PanelNext]_vars

----------------------------------------------------------------------------
(* Properties of the event stream, checked under SpecPanel.                *)

\* the latest fetch succeeded
FetchedCard == sse.fetched # None /\ sse.fetched[1].ok

\* C30 as stated: once a fetch has succeeded after a 'card-error' event,
\* a 'card' event has been sent for it, so after every successful fetch the
\* last event of the stream is the card that was fetched, not an error.
C30_AsStated ==
    ( sse.pc = "polling" /\ FetchedCard )
        => /\ sse.sent # << >>
           /\ sse.sent[Len(sse.sent)]
                = SseEvent("card", json_dumps_compact(sse.fetched[1].payload[1]))

====
